---- MODULE Spec2Model ----
(***************************************************************************)
(* A model of the JARVIS agent core: intent routing, the permission gate,  *)
(* the tool handlers and adapters, the SafeCommandRunner, the consent      *)
(* ledger and the audit log.                                               *)
(*                                                                         *)
(* Python str values are TLA+ strings (Len, SubSeq and \o work on them);   *)
(* a dict is a function whose DOMAIN is the set of its keys.  A value      *)
(* whose Python type varies (the "approved" argument) is held as its       *)
(* Python repr: "True", "False", "None", "1", "'true'".                    *)
(***************************************************************************)
EXTENDS Integers, Sequences, FiniteSets, TLC

VARIABLES
    probe,          \* the last pure-function application: its inputs and output
    response,       \* the AgentResponse of the last run_agent call (with its message)
    handlerCalls,   \* the handler invocations made by the last run_agent call
    calls,          \* number of operations invoked so far
    configured,     \* names of the credential environment variables that are set
    memories,       \* the vector memory store: sequence of records
    tasks,          \* InMemoryState._tasks
    events,         \* CalendarAdapter._events: set of stored events
    drafts,         \* EmailAdapter._drafts
    emails,         \* EmailAdapter._messages
    haQueued,       \* Home Assistant service calls queued
    adapterCalls,   \* names of the adapters whose handle/run was entered, in order
    adapterOut,     \* the last direct call of an adapter's handle and what it returned
    spawned,        \* argument vectors handed to subprocess.run, in order
    runnerOut,      \* outcome of the last SafeCommandRunner.run call
    ledger,         \* consent_requests.json: sequence of ConsentRequest
    ledgerOut,      \* the last ConsentStore call and what it returned
    auditLog,       \* audit.log: sequence of AuditLogEntry, one per line
    auditOut,       \* the last AuditLogger.list_entries call and what it returned
    oauthStates,    \* oauth_state.json: the issued states, keyed by state token
    secrets,        \* secrets.enc: the stored secrets, keyed by secret key
    privacy,        \* privacy_settings.json (the empty mapping while the file is absent)
    integrationOut, \* the last OAuth / privacy endpoint call and what it returned
    workers,        \* the requests being served concurrently: position and locals of each
    tools,          \* TOOLS, the capability table: its keys in insertion order, its values
    registryOut,    \* the last registry call and what it returned
    audio_buffer,   \* VoiceSession.audio_buffer: the bytes received and not yet flushed
    text_only,      \* VoiceSession.text_only, as the start event set it
    transcribed,    \* the audio handed to stt_provider.transcribe, one element per call
    voiceOut,       \* the last /voice message handled and what was sent back
    nextId,         \* source of fresh identifiers (uuid4)
    clock           \* wall clock (datetime.now)

pureVars    == <<probe>>
agentVars   == <<response, handlerCalls>>
envVars     == <<calls, configured>>
stateVars   == <<memories, tasks>>
adapterVars == <<events, drafts, emails, haQueued, adapterCalls, adapterOut>>
runnerVars  == <<spawned, runnerOut>>
ledgerVars  == <<ledger, ledgerOut>>
auditVars   == <<auditLog>>
integrationVars == <<oauthStates, secrets, privacy, integrationOut>>
concVars    == <<workers>>
registryVars == <<tools, registryOut>>
voiceVars   == <<audio_buffer, text_only, transcribed, voiceOut>>
timeVars    == <<nextId, clock>>
vars == <<probe, response, handlerCalls, calls, configured, memories, tasks, events, drafts,
          emails, haQueued, adapterCalls, adapterOut, spawned, runnerOut, ledger, ledgerOut,
          auditLog,
          auditOut, oauthStates, secrets, privacy, integrationOut, workers, tools,
          registryOut, audio_buffer, text_only, transcribed, voiceOut, nextId, clock>>

----------------------------------------------------------------------------
(* Bounds of the model.                                                    *)

\* chat messages handled in one behaviour
MaxMessages == 2
\* tokens of a command given as a list
MaxTokens == 2
\* SafeCommandRunner.run calls in one behaviour
MaxRuns == 2
\* ConsentStore calls in one behaviour
MaxLedgerOps == 3
\* requests served concurrently
MaxWorkers == 2
\* AuditLogger.append calls in one behaviour
MaxAppends == 4
\* requests served in one behaviour of the whole application
MaxRequests == 3
\* register_tool calls in one behaviour
MaxRegistrations == 2
\* direct calls of an adapter's handle in one behaviour
MaxAdapterCalls == 2
\* direct calls of a registered handler in one behaviour
MaxHandlerCalls == 2
\* messages received on one /voice connection
MaxVoiceMessages == 4

----------------------------------------------------------------------------
(* Python str operations.                                                  *)

UpperChars == "ABCDEFGHIJKLMNOPQRSTUVWXYZ"
LowerChars == "abcdefghijklmnopqrstuvwxyz"

CharAt(s, i) == SubSeq(s, i, i)

\* str.lower() of one character
LowerChar(c) ==
    IF \E i \in 1..Len(UpperChars) : CharAt(UpperChars, i) = c
    THEN CharAt(LowerChars, CHOOSE i \in 1..Len(UpperChars) : CharAt(UpperChars, i) = c)
    ELSE c

RECURSIVE Lower(_)
Lower(s) == IF Len(s) = 0 THEN "" ELSE LowerChar(CharAt(s, 1)) \o Lower(SubSeq(s, 2, Len(s)))

\* sub in s
Contains(s, sub) ==
    \E i \in 1..(Len(s) - Len(sub) + 1) : SubSeq(s, i, i + Len(sub) - 1) = sub

\* any(word in lowered for word in words)
AnyIn(lowered, words) == \E w \in words : Contains(lowered, w)

\* dict.get(key, default)
Get(payload, key, default) == IF key \in DOMAIN payload THEN payload[key] ELSE default

\* reprs of the Python values an argument of varying type can take
PyTrue  == "True"
PyFalse == "False"
PyNone  == "None"

\* {}
EmptyDict == [k \in {} |-> PyNone]

\* the "command" argument is a str, a list of str, or something else
StrCmd(text)   == [kind |-> "str", text |-> text, parts |-> <<>>]
ListCmd(parts) == [kind |-> "list", text |-> "", parts |-> parts]
OtherCmd       == [kind |-> "other", text |-> "", parts |-> <<>>]

----------------------------------------------------------------------------
(* app/tools/permissions.py                                                *)

SENSITIVE_TOOLS == {"calendar_crud", "email_message", "smart_home_control", "system_command"}

PermissionMessage(tool_name) == "Permission required to run " \o tool_name \o "."

\* a gate that takes any truthy approved value for an approval
check_permission_truthy(tool_name, payload) ==
    IF tool_name \notin SENSITIVE_TOOLS
    THEN [allowed |-> TRUE, reason |-> ""]
    ELSE IF Get(payload, "approved", PyNone) \notin {PyFalse, PyNone, "0", "''"}
         THEN [allowed |-> TRUE, reason |-> ""]
         ELSE [allowed |-> FALSE, reason |-> PermissionMessage(tool_name)]

\* a gate that takes the presence of the approved field for an approval
check_permission_present(tool_name, payload) ==
    IF tool_name \notin SENSITIVE_TOOLS
    THEN [allowed |-> TRUE, reason |-> ""]
    ELSE IF "approved" \in DOMAIN payload
         THEN [allowed |-> TRUE, reason |-> ""]
         ELSE [allowed |-> FALSE, reason |-> PermissionMessage(tool_name)]

\* a gate that consults the consent ledger: an approved request for the
\* capability stands for the approval
check_permission_ledger(tool_name, payload) ==
    IF tool_name \notin SENSITIVE_TOOLS
    THEN [allowed |-> TRUE, reason |-> ""]
    ELSE IF Get(payload, "approved", PyNone) = PyTrue
            \/ \E i \in DOMAIN ledger :
                  ledger[i].tool_name = tool_name /\ ledger[i].status = "approved"
         THEN [allowed |-> TRUE, reason |-> ""]
         ELSE [allowed |-> FALSE, reason |-> PermissionMessage(tool_name)]

check_permission(tool_name, payload) ==
    IF tool_name \notin SENSITIVE_TOOLS
    THEN [allowed |-> TRUE, reason |-> ""]
    ELSE LET approved == Get(payload, "approved", PyNone)
         IN  IF approved = PyTrue
             THEN [allowed |-> TRUE, reason |-> ""]
             ELSE [allowed |-> FALSE, reason |-> PermissionMessage(tool_name)]

----------------------------------------------------------------------------
(* app/agent/router.py: the pure part.                                     *)

\* a classifier that looks for the calendar words before the task words
detect_intent_calendar_first(message) ==
    LET lowered == Lower(message) IN
    IF AnyIn(lowered, {"remember", "save", "note"}) THEN "remember"
    ELSE IF AnyIn(lowered, {"summary", "summarize"}) THEN "store_summary"
    ELSE IF AnyIn(lowered, {"calendar", "schedule", "meeting", "appointment"}) THEN "calendar"
    ELSE IF AnyIn(lowered, {"task", "todo", "remind"}) THEN "create_task"
    ELSE IF AnyIn(lowered, {"recall", "search", "lookup", "find memory"}) THEN "recall"
    ELSE IF AnyIn(lowered, {"email", "mail", "inbox", "message"}) THEN "email"
    ELSE IF AnyIn(lowered, {"home assistant", "smart home", "lights", "thermostat"})
         THEN "smart_home"
    ELSE IF AnyIn(lowered, {"run command", "execute", "terminal", "shell"})
         THEN "system_command"
    ELSE "general"

\* a classifier that does not lower the message
detect_intent_case_sensitive(message) ==
    LET lowered == message IN
    IF AnyIn(lowered, {"remember", "save", "note"}) THEN "remember"
    ELSE IF AnyIn(lowered, {"summary", "summarize"}) THEN "store_summary"
    ELSE IF AnyIn(lowered, {"task", "todo", "remind"}) THEN "create_task"
    ELSE IF AnyIn(lowered, {"recall", "search", "lookup", "find memory"}) THEN "recall"
    ELSE IF AnyIn(lowered, {"calendar", "schedule", "meeting", "appointment"}) THEN "calendar"
    ELSE IF AnyIn(lowered, {"email", "mail", "inbox", "message"}) THEN "email"
    ELSE IF AnyIn(lowered, {"home assistant", "smart home", "lights", "thermostat"})
         THEN "smart_home"
    ELSE IF AnyIn(lowered, {"run command", "execute", "terminal", "shell"})
         THEN "system_command"
    ELSE "general"

detect_intent(message) ==
    LET lowered == Lower(message) IN
    IF AnyIn(lowered, {"remember", "save", "note"}) THEN "remember"
    ELSE IF AnyIn(lowered, {"summary", "summarize"}) THEN "store_summary"
    ELSE IF AnyIn(lowered, {"task", "todo", "remind"}) THEN "create_task"
    ELSE IF AnyIn(lowered, {"recall", "search", "lookup", "find memory"}) THEN "recall"
    ELSE IF AnyIn(lowered, {"calendar", "schedule", "meeting", "appointment"}) THEN "calendar"
    ELSE IF AnyIn(lowered, {"email", "mail", "inbox", "message"}) THEN "email"
    ELSE IF AnyIn(lowered, {"home assistant", "smart home", "lights", "thermostat"})
         THEN "smart_home"
    ELSE IF AnyIn(lowered, {"run command", "execute", "terminal", "shell"})
         THEN "system_command"
    ELSE "general"

intent_map ==
    [remember |-> "remember", create_task |-> "create_task",
     store_summary |-> "store_summary", recall |-> "recall",
     calendar |-> "calendar_crud", email |-> "email_message",
     smart_home |-> "smart_home_control", system_command |-> "system_command"]

\* a select_tools that names the capability after the intent
select_tools_by_intent(intent) ==
    IF intent \in DOMAIN intent_map THEN <<intent>> ELSE <<>>

select_tools(intent) ==
    IF intent \in DOMAIN intent_map THEN <<intent_map[intent]>> ELSE <<>>

\* a synthesizer that forgets the approved field of the shell capability
build_tool_arguments_noflag(tool_name, message) ==
    LET lowered == Lower(message) IN
    CASE tool_name = "remember" -> [content |-> message]
      [] tool_name = "store_summary" -> [content |-> message]
      [] tool_name = "recall" -> [query |-> message]
      [] tool_name = "create_task" -> [title |-> message]
      [] tool_name = "calendar_crud" ->
            [action |-> IF AnyIn(lowered, {"create", "schedule", "book"}) THEN "create"
                        ELSE IF AnyIn(lowered, {"update", "edit", "reschedule", "move"})
                             THEN "update"
                        ELSE IF AnyIn(lowered, {"delete", "cancel", "remove"}) THEN "delete"
                        ELSE "list",
             request |-> message, approved |-> PyFalse]
      [] tool_name = "email_message" ->
            [action |-> IF AnyIn(lowered, {"compose", "draft", "write"}) THEN "compose"
                        ELSE IF Contains(lowered, "send") THEN "send"
                        ELSE "search",
             request |-> message, approved |-> PyFalse]
      [] tool_name = "smart_home_control" ->
            [service |-> IF Contains(lowered, "turn on") THEN "turn_on"
                         ELSE IF Contains(lowered, "turn off") THEN "turn_off"
                         ELSE IF Contains(lowered, "temperature")
                                 \/ Contains(lowered, "thermostat") THEN "set_temperature"
                         ELSE PyNone,
             request |-> message, approved |-> PyFalse]
      [] tool_name = "system_command" ->
            [command |-> StrCmd(""), request |-> message]
      [] OTHER -> EmptyDict

build_tool_arguments(tool_name, message) ==
    LET lowered == Lower(message) IN
    CASE tool_name = "remember" -> [content |-> message]
      [] tool_name = "store_summary" -> [content |-> message]
      [] tool_name = "recall" -> [query |-> message]
      [] tool_name = "create_task" -> [title |-> message]
      [] tool_name = "calendar_crud" ->
            [action |-> IF AnyIn(lowered, {"create", "schedule", "book"}) THEN "create"
                        ELSE IF AnyIn(lowered, {"update", "edit", "reschedule", "move"})
                             THEN "update"
                        ELSE IF AnyIn(lowered, {"delete", "cancel", "remove"}) THEN "delete"
                        ELSE "list",
             request |-> message, approved |-> PyFalse]
      [] tool_name = "email_message" ->
            [action |-> IF AnyIn(lowered, {"compose", "draft", "write"}) THEN "compose"
                        ELSE IF Contains(lowered, "send") THEN "send"
                        ELSE "search",
             request |-> message, approved |-> PyFalse]
      [] tool_name = "smart_home_control" ->
            [service |-> IF Contains(lowered, "turn on") THEN "turn_on"
                         ELSE IF Contains(lowered, "turn off") THEN "turn_off"
                         ELSE IF Contains(lowered, "temperature")
                                 \/ Contains(lowered, "thermostat") THEN "set_temperature"
                         ELSE PyNone,
             request |-> message, approved |-> PyFalse]
      [] tool_name = "system_command" ->
            [command |-> StrCmd(""), request |-> message, approved |-> PyFalse]
      [] OTHER -> EmptyDict

----------------------------------------------------------------------------
(* shlex.split(s): posix mode, whitespace_split, no comment characters.    *)

Whitespace == {" ", "\t", "\r", "\n"}
Quotes     == {"'", "\""}
Escape     == "\\"

\* shlex.read_token, iterated over the whole string.  state is " " (between
\* tokens), "a" (in a word), a quote character, or the escape character;
\* escaped is shlex's escapedstate.  The result carries the ValueError raised,
\* if any.
RECURSIVE ShlexScan(_, _, _, _, _, _, _)
ShlexScan(s, i, state, escaped, token, quoted, out) ==
    IF i > Len(s)
    THEN CASE state \in Quotes -> [error |-> "No closing quotation", tokens |-> <<>>]
           [] state = Escape   -> [error |-> "No escaped character", tokens |-> <<>>]
           [] state = "a" ->
                [error |-> "",
                 tokens |-> IF token # "" \/ quoted THEN Append(out, token) ELSE out]
           [] OTHER -> [error |-> "", tokens |-> out]
    ELSE LET c == CharAt(s, i) IN
         CASE state = " " ->
                IF c \in Whitespace THEN ShlexScan(s, i + 1, " ", escaped, "", FALSE, out)
                ELSE IF c = Escape THEN ShlexScan(s, i + 1, Escape, "a", "", FALSE, out)
                ELSE IF c \in Quotes THEN ShlexScan(s, i + 1, c, escaped, "", TRUE, out)
                ELSE ShlexScan(s, i + 1, "a", escaped, c, FALSE, out)
           [] state \in Quotes ->
                IF c = state THEN ShlexScan(s, i + 1, "a", escaped, token, TRUE, out)
                ELSE IF c = Escape /\ state = "\""
                     THEN ShlexScan(s, i + 1, Escape, state, token, TRUE, out)
                ELSE ShlexScan(s, i + 1, state, escaped, token \o c, TRUE, out)
           [] state = Escape ->
                ShlexScan(s, i + 1, escaped, escaped,
                          IF escaped \in Quotes /\ c # Escape /\ c # escaped
                          THEN token \o Escape \o c ELSE token \o c,
                          quoted, out)
           [] OTHER ->
                IF c \in Whitespace
                THEN IF token # "" \/ quoted
                     THEN ShlexScan(s, i + 1, " ", escaped, "", FALSE, Append(out, token))
                     ELSE ShlexScan(s, i + 1, " ", escaped, "", FALSE, out)
                ELSE IF c \in Quotes THEN ShlexScan(s, i + 1, c, escaped, token, quoted, out)
                ELSE IF c = Escape THEN ShlexScan(s, i + 1, Escape, "a", token, quoted, out)
                ELSE ShlexScan(s, i + 1, "a", escaped, token \o c, quoted, out)

shlex_split(s) == ShlexScan(s, 1, " ", "a", "", FALSE, <<>>)

----------------------------------------------------------------------------
(* app/tools/adapters.py: SafeCommandRunner                                *)

SAFE_COMMANDS ==
    [date |-> {}, whoami |-> {}, uptime |-> {}, pwd |-> {},
     ls |-> {"-a", "-l", "-la", "-al"}]

\* the ValueError of shlex.split leaves _parse_command: nothing catches it
_parse_command(payload) ==
    LET command == Get(payload, "command", OtherCmd) IN
    IF command.kind = "list" THEN [error |-> "", tokens |-> command.parts]
    ELSE IF command.kind = "str" THEN shlex_split(command.text)
    ELSE [error |-> "", tokens |-> <<>>]

Range(seq) == {seq[i] : i \in DOMAIN seq}

\* a validator that looks at the base command only
_is_allowed_base_only(command) ==
    IF command = <<>> THEN [allowed |-> FALSE, reason |-> "No command provided."]
    ELSE IF command[1] \notin DOMAIN SAFE_COMMANDS
         THEN [allowed |-> FALSE,
               reason |-> "Command '" \o command[1] \o "' is not in the allowlist."]
    ELSE [allowed |-> TRUE, reason |-> ""]

_is_allowed(command) ==
    IF command = <<>> THEN [allowed |-> FALSE, reason |-> "No command provided."]
    ELSE LET base == command[1] IN
         IF base \notin DOMAIN SAFE_COMMANDS
         THEN [allowed |-> FALSE,
               reason |-> "Command '" \o base \o "' is not in the allowlist."]
         ELSE LET allowed_args  == SAFE_COMMANDS[base]
                  provided_args == Range(Tail(command))
              IN  IF allowed_args # {} /\ ~(provided_args \subseteq allowed_args)
                  THEN [allowed |-> FALSE,
                        reason |-> "Command arguments are not allowlisted."]
                  ELSE IF allowed_args = {} /\ provided_args # {}
                  THEN [allowed |-> FALSE,
                        reason |-> "Command does not accept arguments."]
                  ELSE [allowed |-> TRUE, reason |-> ""]

\* What the child process does within the timeout: it exits with a return
\* code, or it is still running when the timeout expires.
ProcOutcomes ==
    {[kind |-> "exit", returncode |-> 0], [kind |-> "exit", returncode |-> 2],
     [kind |-> "timeout", returncode |-> -9]}

\* SafeCommandRunner.run(payload), the child behaving as proc.  The outcome:
\* raised names the exception that leaves run ("" when it returns), result is
\* the returned mapping, spawn the argument vectors given to subprocess.run,
\* child what became of the child process.  subprocess.run(timeout=5) kills
\* the child and waits for it before it raises TimeoutExpired.
SafeCommandRunner_run(payload, proc) ==
    LET parsed == _parse_command(payload) IN
    IF parsed.error # ""
    THEN [raised |-> "ValueError", result |-> EmptyDict, spawn |-> <<>>, child |-> "none"]
    ELSE LET command == parsed.tokens
             verdict == _is_allowed(command)
         IN  IF ~verdict.allowed
             THEN [raised |-> "", spawn |-> <<>>, child |-> "none",
                   result |-> [status |-> "denied", message |-> verdict.reason]]
             ELSE IF proc.kind = "timeout"
             THEN [raised |-> "TimeoutExpired", result |-> EmptyDict,
                   spawn |-> <<command>>, child |-> "killed"]
             ELSE [raised |-> "", spawn |-> <<command>>, child |-> "exited",
                   result |-> [status |-> "ok", command |-> command,
                               stdout |-> "<stdout>", stderr |-> "<stderr>",
                               returncode |-> proc.returncode]]

----------------------------------------------------------------------------
(* The stores the handlers work on, as one record st:                      *)
(*   memories, tasks, events, drafts, emails, haQueued, adapterCalls,      *)
(*   spawned, nextId.                                                      *)
(* sys is what the handler's environment decides during the call:          *)
(*   configured (the credentials set), now (the clock reading),            *)
(*   proc (what a spawned child process does).                             *)

uuid4(st) == "u" \o ToString(st.nextId)

isoformat(now) == "T" \o ToString(now)

(* app/storage/memory_store.py, app/storage/state.py                       *)

\* an add_memory that answers a content it already holds with the stored record
add_memory_dedup(content, metadata, memory_type, st, sys) ==
    IF \E i \in DOMAIN st.memories : st.memories[i].content = content
    THEN [record |-> st.memories[CHOOSE i \in DOMAIN st.memories :
                                    st.memories[i].content = content],
          st |-> st]
    ELSE LET record == [id |-> uuid4(st), content |-> content,
                        metadata |-> metadata @@ [type |-> memory_type],
                        created_at |-> isoformat(sys.now)]
         IN  [record |-> record,
              st |-> [st EXCEPT !.memories = Append(@, record), !.nextId = @ + 1]]

\* VectorMemoryStore.add_memory; the embedding vector is the backend's affair
add_memory(content, metadata, memory_type, st, sys) ==
    LET record == [id |-> uuid4(st), content |-> content,
                   metadata |-> metadata @@ [type |-> memory_type],
                   created_at |-> isoformat(sys.now)]
    IN  [record |-> record,
         st |-> [st EXCEPT !.memories = Append(@, record), !.nextId = @ + 1]]

\* InMemoryState.add_task
add_task(title, status, metadata, st) ==
    LET item == [id |-> st.tasks.task_id + 1, title |-> title, status |-> status,
                 metadata |-> metadata]
    IN  [item |-> item,
         st |-> [st EXCEPT !.tasks = [task_id |-> @.task_id + 1,
                                      items |-> Append(@.items, item)]]]

(* app/tools/adapters.py: CalendarAdapter, EmailAdapter, HomeAssistantAdapter *)

Returned(result, st) == [raised |-> "", result |-> result, st |-> st]

Entered(adapter, st) == [st EXCEPT !.adapterCalls = Append(@, adapter)]

\* a configuration test that takes either calendar token for both providers
CalendarConfigured_any(provider, sys) ==
    {"GOOGLE_CALENDAR_TOKEN", "OUTLOOK_CALENDAR_TOKEN"} \cap sys.configured # {}

CalendarConfigured(provider, sys) ==
    \/ provider = "google" /\ "GOOGLE_CALENDAR_TOKEN" \in sys.configured
    \/ provider = "outlook" /\ "OUTLOOK_CALENDAR_TOKEN" \in sys.configured

\* payload.get(key) is not None; attendees, when given, is a list
NotNone(payload, key) ==
    key \in DOMAIN payload /\ (key = "attendees" \/ payload[key] # PyNone)

Values(dict) == {dict[k] : k \in DOMAIN dict}

CalendarAdapter_handle(provider, action, payload, st0, sys) ==
    LET st == Entered("calendar", st0) IN
    IF provider \notin {"google", "outlook"}
    THEN Returned([status |-> "error",
                   message |-> "Unsupported provider: " \o provider], st)
    ELSE IF ~CalendarConfigured(provider, sys)
    THEN Returned([status |-> "not_configured",
                   message |-> provider \o " calendar is not configured."], st)
    ELSE IF action = "create"
    THEN LET event_id == "evt_" \o ToString(sys.now)
             event == [id |-> event_id,
                       title |-> Get(payload, "title", "Untitled event"),
                       start |-> Get(payload, "start", PyNone),
                       end |-> Get(payload, "end", PyNone),
                       attendees |-> Get(payload, "attendees", <<>>),
                       location |-> Get(payload, "location", PyNone)]
         IN  Returned([status |-> "created", provider |-> provider, event |-> event],
                      [st EXCEPT !.events =
                           [k \in DOMAIN @ \cup {event_id} |->
                               IF k = event_id THEN event ELSE @[k]]])
    ELSE IF action \in {"update", "delete"}
    THEN LET event_id == Get(payload, "event_id", PyNone) IN
         IF event_id \in {PyNone, ""} \/ event_id \notin DOMAIN st.events
         THEN Returned([status |-> "error", message |-> "Event not found."], st)
         ELSE IF action = "update"
         THEN LET old == st.events[event_id]
                  event == [k \in DOMAIN old |->
                               IF NotNone(payload, k) THEN payload[k] ELSE old[k]]
              IN  Returned([status |-> "updated", provider |-> provider, event |-> event],
                           [st EXCEPT !.events[event_id] = event])
         ELSE Returned([status |-> "deleted", provider |-> provider,
                        event |-> st.events[event_id]],
                       [st EXCEPT !.events = [k \in DOMAIN @ \ {event_id} |-> @[k]]])
    ELSE IF action \in {"list", "read"}
    THEN Returned([status |-> "ok", provider |-> provider, events |-> Values(st.events)], st)
    ELSE Returned([status |-> "error", message |-> "Unknown action: " \o action], st)

EmailConfigured(provider, sys) ==
    \/ provider = "google" /\ "GOOGLE_EMAIL_TOKEN" \in sys.configured
    \/ provider = "outlook" /\ "OUTLOOK_EMAIL_TOKEN" \in sys.configured

\* the mapping compose and send build from the payload
MailFields(payload) ==
    [to |-> Get(payload, "to", <<>>), subject |-> Get(payload, "subject", ""),
     body |-> Get(payload, "body", ""), cc |-> Get(payload, "cc", <<>>),
     bcc |-> Get(payload, "bcc", <<>>)]

Put(dict, key, value) ==
    [k \in DOMAIN dict \cup {key} |-> IF k = key THEN value ELSE dict[k]]

\* send with a draft_id stores the draft object itself as the message and
\* writes the message id into it: the draft store sees the new id too, and so
\* does every message stored by an earlier send of that draft, which is the
\* same object (the stored messages equal to the draft)
EmailAdapter_handle(provider, action, payload, st0, sys) ==
    LET st == Entered("email", st0) IN
    IF provider \notin {"google", "outlook"}
    THEN Returned([status |-> "error",
                   message |-> "Unsupported provider: " \o provider], st)
    ELSE IF ~EmailConfigured(provider, sys)
    THEN Returned([status |-> "not_configured",
                   message |-> provider \o " email is not configured."], st)
    ELSE IF action = "search"
    THEN LET query == Get(payload, "query", "") IN
         \* query.lower() and message.get("subject", "").lower() are evaluated for
         \* each stored message: None has no lower()
         IF st.emails # EmptyDict
            /\ (query = PyNone
                \/ \E m \in Values(st.emails) : Get(m, "subject", "") = PyNone)
         THEN [raised |-> "AttributeError", result |-> EmptyDict, st |-> st]
         ELSE Returned([status |-> "ok", provider |-> provider,
                        results |-> {m \in Values(st.emails) :
                                        Contains(Lower(Get(m, "subject", "")),
                                                 Lower(query))}],
                       st)
    ELSE IF action = "compose"
    THEN LET draft_id == "draft_" \o ToString(sys.now)
             draft == MailFields(payload) @@ [id |-> draft_id]
         IN  Returned([status |-> "drafted", provider |-> provider, draft |-> draft],
                      [st EXCEPT !.drafts = Put(@, draft_id, draft)])
    ELSE IF action = "send"
    THEN LET draft_id == Get(payload, "draft_id", PyNone)
             message_id == "msg_" \o ToString(sys.now)
         IN  IF draft_id \notin {PyNone, ""}
             THEN IF draft_id \notin DOMAIN st.drafts
                  THEN Returned([status |-> "error", message |-> "Draft not found."], st)
                  ELSE LET message == [st.drafts[draft_id] EXCEPT !.id = message_id] IN
                       Returned([status |-> "sent", provider |-> provider,
                                 message |-> message],
                                [st EXCEPT !.drafts[draft_id] = message,
                                           !.emails =
                                               Put([k \in DOMAIN @ |->
                                                       IF @[k] = st.drafts[draft_id]
                                                       THEN message ELSE @[k]],
                                                   message_id, message)])
             ELSE LET message == [id |-> message_id] @@ MailFields(payload) IN
                  Returned([status |-> "sent", provider |-> provider, message |-> message],
                           [st EXCEPT !.emails = Put(@, message_id, message)])
    ELSE Returned([status |-> "error", message |-> "Unknown action: " \o action], st)

HomeAssistantAdapter_handle(payload, st0, sys) ==
    LET st == Entered("home_assistant", st0) IN
    IF ~({"HOME_ASSISTANT_URL", "HOME_ASSISTANT_TOKEN"} \subseteq sys.configured)
    THEN Returned([status |-> "not_configured",
                   message |-> "Home Assistant is not configured."], st)
    ELSE Returned([status |-> "queued", service |-> Get(payload, "service", PyNone),
                   entity_id |-> Get(payload, "entity_id", PyNone),
                   device_id |-> Get(payload, "device_id", PyNone),
                   data |-> Get(payload, "data", EmptyDict)],
                  [st EXCEPT !.haQueued = @ + 1])

\* _COMMAND_RUNNER.run(payload) on the stores
CommandRunner_handle(payload, st0, sys) ==
    LET st == Entered("command_runner", st0)
        r  == SafeCommandRunner_run(payload, sys.proc)
    IN  [raised |-> r.raised, result |-> r.result,
         st |-> [st EXCEPT !.spawned = @ \o r.spawn]]

----------------------------------------------------------------------------
(* app/tools/registry.py: the handlers                                     *)

PermissionRequired(reason) == [status |-> "permission_required", message |-> reason]

_remember_tool(payload, st, sys) ==
    LET a == add_memory(Get(payload, "content", ""), Get(payload, "metadata", EmptyDict),
                        "note", st, sys)
    IN  Returned([memory_id |-> a.record.id, content |-> a.record.content], a.st)

_store_summary_tool(payload, st, sys) ==
    LET a == add_memory(Get(payload, "content", ""), Get(payload, "metadata", EmptyDict),
                        "summary", st, sys)
    IN  Returned([summary_id |-> a.record.id, content |-> a.record.content], a.st)

\* the search is the vector backend's: it returns at most limit stored records
\* (of the given type, when one is given); which ones, when more than limit
\* are stored, is its choice, so the model keeps fewer than limit records
_recall_tool(payload, st) ==
    LET memory_type == Get(payload, "memory_type", PyNone)
        found == {st.memories[i].id : i \in
                     {j \in DOMAIN st.memories :
                         memory_type \in {PyNone, ""}
                         \/ st.memories[j].metadata["type"] = memory_type}}
    IN  Returned([matches |-> found], st)

_create_task_tool(payload, st) ==
    LET a == add_task(Get(payload, "title", "Untitled task"), Get(payload, "status", "open"),
                      Get(payload, "metadata", EmptyDict), st)
    IN  Returned([task_id |-> a.item.id, title |-> a.item.title, status |-> a.item.status],
                 a.st)

_calendar_crud_tool(payload, st, sys) ==
    LET gate == check_permission("calendar_crud", payload) IN
    IF ~gate.allowed THEN Returned(PermissionRequired(gate.reason), st)
    ELSE CalendarAdapter_handle(Get(payload, "provider", "google"),
                                Get(payload, "action", "list"), payload, st, sys)

_email_message_tool(payload, st, sys) ==
    LET gate == check_permission("email_message", payload) IN
    IF ~gate.allowed THEN Returned(PermissionRequired(gate.reason), st)
    ELSE EmailAdapter_handle(Get(payload, "provider", "google"),
                             Get(payload, "action", "search"), payload, st, sys)

\* a smart-home handler that goes to its adapter without asking the gate
_smart_home_tool_ungated(payload, st, sys) == HomeAssistantAdapter_handle(payload, st, sys)

_smart_home_tool(payload, st, sys) ==
    LET gate == check_permission("smart_home_control", payload) IN
    IF ~gate.allowed THEN Returned(PermissionRequired(gate.reason), st)
    ELSE HomeAssistantAdapter_handle(payload, st, sys)

_system_command_tool(payload, st, sys) ==
    LET gate == check_permission("system_command", payload) IN
    IF ~gate.allowed THEN Returned(PermissionRequired(gate.reason), st)
    ELSE CommandRunner_handle(payload, st, sys)

\* TOOLS[name].handler(payload), for the capabilities select_tools can name
Handler(name, payload, st, sys) ==
    CASE name = "remember"           -> _remember_tool(payload, st, sys)
      [] name = "store_summary"      -> _store_summary_tool(payload, st, sys)
      [] name = "recall"             -> _recall_tool(payload, st)
      [] name = "create_task"        -> _create_task_tool(payload, st)
      [] name = "calendar_crud"      -> _calendar_crud_tool(payload, st, sys)
      [] name = "email_message"      -> _email_message_tool(payload, st, sys)
      [] name = "smart_home_control" -> _smart_home_tool(payload, st, sys)
      [] name = "system_command"     -> _system_command_tool(payload, st, sys)

\* TOOLS after the module's register_tool calls, in registration order; an
\* input schema is held as the names of its properties and required fields
Tool(name, description, properties, required) ==
    [name |-> name, description |-> description,
     input_schema |-> [properties |-> properties, required |-> required]]

TOOLS ==
    <<Tool("remember", "Store a memory snippet for later retrieval.",
           {"content", "metadata"}, {"content"}),
      Tool("store_summary", "Store a conversation summary for long-term recall.",
           {"content", "metadata"}, {"content"}),
      Tool("index_document", "Index a document into vector memory for search.",
           {"content", "metadata"}, {"content"}),
      Tool("recall", "Retrieve relevant memories by semantic search.",
           {"query", "limit", "memory_type"}, {"query"}),
      Tool("forget_memory", "Remove memories by id, type, tag, or timestamp.",
           {"ids", "memory_type", "tag", "before", "purge_all"}, {}),
      Tool("export_memory", "Export all stored memories and metadata.", {}, {}),
      Tool("create_task", "Create a new task for the agent to track.",
           {"title", "status", "metadata"}, {"title"}),
      Tool("calendar_crud",
           "Create, read, update, or delete calendar events for Google or Outlook.",
           {"provider", "action", "title", "start", "end", "attendees", "location",
            "event_id", "approved"}, {}),
      Tool("email_message", "Search, compose, or send emails using Google or Outlook.",
           {"provider", "action", "query", "to", "subject", "body", "cc", "bcc",
            "draft_id", "approved"}, {}),
      Tool("smart_home_control", "Control Home Assistant devices and services.",
           {"service", "entity_id", "device_id", "data", "approved"}, {}),
      Tool("system_command", "Run a safe, allowlisted system command.",
           {"command", "approved"}, {"command"})>>

\* A dict keeps its keys in insertion order: keys is that order, values the
\* mapping.
EmptyRegistry == [keys |-> <<>>, values |-> EmptyDict]

\* a register_tool that keeps the capability a name was first registered with
register_tool_first_wins(registry, tool) ==
    IF tool.name \in DOMAIN registry.values THEN registry
    ELSE [keys |-> Append(registry.keys, tool.name),
          values |-> Put(registry.values, tool.name, tool)]

\* register_tool: TOOLS[tool.name] = tool; a key the dict already holds keeps
\* its place
register_tool(registry, tool) ==
    [keys |-> IF tool.name \in DOMAIN registry.values THEN registry.keys
              ELSE Append(registry.keys, tool.name),
     values |-> Put(registry.values, tool.name, tool)]

\* the table after the register_tool calls of the module, made in order
RECURSIVE RegisterAll(_, _)
RegisterAll(registry, seq) ==
    IF seq = <<>> THEN registry
    ELSE RegisterAll(register_tool(registry, Head(seq)), Tail(seq))

\* a list_tools that lists the latest registration first
list_tools_reversed(registry) ==
    [i \in DOMAIN registry.keys |->
        registry.values[registry.keys[Len(registry.keys) + 1 - i]]]

\* list_tools: list(TOOLS.values())
list_tools(registry) == [i \in DOMAIN registry.keys |-> registry.values[registry.keys[i]]]

\* name in TOOLS
Registered(name) == name \in DOMAIN tools.values

\* get_tool: TOOLS[name]; an absent name is a KeyError, which callers of this
\* operator rule out with Registered
get_tool(name) == tools.values[name]

\* available_tools_payload (app/agent/router.py)
available_tools_payload(registry) ==
    [i \in DOMAIN list_tools(registry) |->
        [name |-> list_tools(registry)[i].name,
         description |-> list_tools(registry)[i].description,
         input_schema |-> list_tools(registry)[i].input_schema]]

----------------------------------------------------------------------------
(* app/llm: the completion backend is a stub that echoes its input         *)

get_provider(name) == IF name \in {"openai", "anthropic"} THEN name ELSE "local"

generate(provider, prompt, context) ==
    [provider |-> provider, prompt |-> prompt, context |-> context,
     completion |-> CASE provider = "openai" -> "[stubbed OpenAI response]"
                      [] provider = "anthropic" -> "[stubbed Anthropic response]"
                      [] OTHER -> "[stubbed local response]"]

----------------------------------------------------------------------------
(* app/agent/router.py: run_agent                                          *)

ToolNames == {TOOLS[i].name : i \in DOMAIN TOOLS} \cup {"unknown_tool"}

Messages ==
    {"", "hello there", "schedule a meeting tomorrow", "remember to buy milk",
     "Remind me to call mom", "SUMMARIZE this chat", "recall my notes",
     "search for the report", "what is on my calendar", "reschedule the appointment",
     "cancel the meeting", "book a meeting approved=true", "check my inbox",
     "draft an email to bob", "send the email now", "Send a Message",
     "turn on the lights", "turn off the lights", "set the thermostat to 70",
     "smart home status", "run command ls -la", "execute rm -rf /",
     "open a shell approved: True", "terminal date", "find memory of paris",
     "todo: email the schedule", "save the lights setting", "move my appointment",
     "write mail about the shell", "lights and thermostat", "delete calendar entry",
     "EXECUTE whoami", "please approve everything", "remind me to take notes",
     "remind me about the meeting", "dim the LIGHTS"}

\* the messages POST /chat is sent
ChatMessages ==
    {"hello there", "schedule a meeting tomorrow", "remember to buy milk",
     "Remind me to call mom", "SUMMARIZE this chat", "recall my notes",
     "book a meeting approved=true", "send the email now", "turn on the lights",
     "run command ls -la", "execute rm -rf /", "open a shell approved: True",
     "todo: email the schedule", "please approve everything"}

\* detect_intent and build_tool_arguments on the messages above, worked out once
IntentOf == [m \in Messages |-> detect_intent(m)]
ArgumentsOf == [t \in ToolNames, m \in Messages |-> build_tool_arguments(t, m)]

\* One turn of run_agent's loop.  acc carries the tool calls made so far, the
\* handler invocations, the exception that ended the loop ("" while none did)
\* and the stores.

\* a loop body that calls the handler whatever the gate says
InvokeTool_ungated(tool_name, message, acc, sys) ==
    LET tool == get_tool(tool_name)
        arguments == ArgumentsOf[tool_name, message]
        h == Handler(tool_name, arguments, acc.st, sys)
    IN  [acc EXCEPT
           !.raised = h.raised,
           !.st = h.st,
           !.handlerCalls = Append(@, [name |-> tool_name, arguments |-> arguments]),
           !.tool_calls = IF h.raised # "" THEN @
                          ELSE Append(@, [name |-> tool.name, arguments |-> arguments,
                                          schema |-> tool.input_schema,
                                          result |-> h.result])]

InvokeTool(tool_name, message, acc, sys) ==
    IF ~Registered(tool_name) THEN [acc EXCEPT !.raised = "KeyError"]
    ELSE
    LET tool == get_tool(tool_name)
        arguments == ArgumentsOf[tool_name, message]
        gate == check_permission(tool_name, arguments)
    IN  IF ~gate.allowed
        THEN [acc EXCEPT
                !.tool_calls = Append(@, [name |-> tool.name, arguments |-> arguments,
                                          schema |-> tool.input_schema,
                                          result |-> PermissionRequired(gate.reason)])]
        ELSE LET h == Handler(tool_name, arguments, acc.st, sys) IN
             [acc EXCEPT
                !.raised = h.raised,
                !.st = h.st,
                !.handlerCalls = Append(@, [name |-> tool_name, arguments |-> arguments]),
                !.tool_calls =
                    IF h.raised # "" THEN @
                    ELSE Append(@, [name |-> tool.name, arguments |-> arguments,
                                    schema |-> tool.input_schema, result |-> h.result])]

RECURSIVE RunTools(_, _, _, _)
RunTools(names, message, acc, sys) ==
    IF names = <<>> \/ acc.raised # "" THEN acc
    ELSE RunTools(Tail(names), message, InvokeTool(Head(names), message, acc, sys), sys)

\* run_agent(message, provider_name) on the stores st: the AgentResponse (with
\* the exception that left run_agent, if one did), the handler invocations made
\* and the stores afterwards
run_agent(message, provider_name, st, sys) ==
    LET intent == IntentOf[message]
        completion == generate(get_provider(provider_name), message, [intent |-> intent])
        acc == RunTools(select_tools(intent), message,
                        [tool_calls |-> <<>>, handlerCalls |-> <<>>, raised |-> "",
                         st |-> st], sys)
    IN  [response |-> [message |-> message, intent |-> intent, provider |-> provider_name,
                       completion |-> completion, tool_calls |-> acc.tool_calls,
                       raised |-> acc.raised],
         handlerCalls |-> acc.handlerCalls,
         st |-> acc.st]

----------------------------------------------------------------------------
(* app/storage/audit_log.py                                                *)

\* an append that writes the new line at the head of the file
AuditLogger_append_head(log, event, actor, details, id, now) ==
    <<[id |-> id, event |-> event, actor |-> actor, details |-> details,
       created_at |-> isoformat(now)]>> \o log

\* AuditLogger.append: one line is appended to the log file
AuditLogger_append(log, event, actor, details, id, now) ==
    Append(log, [id |-> id, event |-> event, actor |-> actor, details |-> details,
                 created_at |-> isoformat(now)])

\* seq[start:] for a Python list: a negative start counts from the end
PySliceFrom(seq, start) ==
    LET n == Len(seq)
        from == IF start < 0 THEN (IF n + start < 0 THEN 0 ELSE n + start)
                ELSE (IF start > n THEN n ELSE start)
    IN  SubSeq(seq, from + 1, n)

\* a list_entries that takes the first limit lines
AuditLogger_list_entries_head(log, limit) ==
    LET selected == SubSeq(log, 1, IF limit > Len(log) THEN Len(log) ELSE limit)
    IN  [i \in DOMAIN selected |->
            [id |-> Get(selected[i], "id", ""), event |-> Get(selected[i], "event", ""),
             actor |-> Get(selected[i], "actor", ""),
             details |-> Get(selected[i], "details", EmptyDict),
             created_at |-> Get(selected[i], "created_at", "")]]

\* AuditLogger.list_entries: lines[-limit:], each line parsed and read with
\* payload.get(field, default).  A line of the log holds a JSON object whose
\* values are strings, booleans, integers and lists of strings: json.loads
\* gives back what json.dumps was given.
AuditLogger_list_entries(log, limit) ==
    LET selected == PySliceFrom(log, 0 - limit)
    IN  [i \in DOMAIN selected |->
            [id |-> Get(selected[i], "id", ""), event |-> Get(selected[i], "event", ""),
             actor |-> Get(selected[i], "actor", ""),
             details |-> Get(selected[i], "details", EmptyDict),
             created_at |-> Get(selected[i], "created_at", "")]]

----------------------------------------------------------------------------
(* app/storage/consent_store.py: each method loads the whole file, works   *)
(* on the list and, when it changed something, writes the whole file back  *)

\* a create that saves the new request alone
ConsentStore_create_alone(items, tool_name, payload, id, now) ==
    LET request == [id |-> id, tool_name |-> tool_name, payload |-> payload,
                    status |-> "pending", created_at |-> isoformat(now),
                    resolved_at |-> PyNone, resolution |-> PyNone]
    IN  [items |-> <<request>>, returned |-> request]

ConsentStore_create(items, tool_name, payload, id, now) ==
    LET request == [id |-> id, tool_name |-> tool_name, payload |-> payload,
                    status |-> "pending", created_at |-> isoformat(now),
                    resolved_at |-> PyNone, resolution |-> PyNone]
    IN  [items |-> Append(items, request), returned |-> request]

\* status: Optional[str]; None and "" select nothing
ConsentStore_list(items, status) ==
    IF status \notin {PyNone, ""}
    THEN SelectSeq(items, LAMBDA item : item.status = status)
    ELSE items

\* the first record with the id, if there is one
FirstWithId(items, request_id) ==
    IF \E i \in DOMAIN items : items[i].id = request_id
    THEN CHOOSE i \in DOMAIN items :
            /\ items[i].id = request_id
            /\ \A j \in 1..(i - 1) : items[j].id # request_id
    ELSE 0

\* a resolve that forgets the resolution field
ConsentStore_resolve_partial(items, request_id, approved, now) ==
    LET i == FirstWithId(items, request_id) IN
    IF i = 0 THEN [items |-> items, found |-> FALSE, returned |-> EmptyDict]
    ELSE LET updated == [items[i] EXCEPT
                            !.status = IF approved THEN "approved" ELSE "denied",
                            !.resolved_at = isoformat(now)]
         IN  [items |-> [items EXCEPT ![i] = updated], found |-> TRUE,
              returned |-> updated]

\* a resolve that files a resolved record for an id it does not find
ConsentStore_resolve_upsert(items, request_id, approved, now) ==
    LET i == FirstWithId(items, request_id)
        verdict == IF approved THEN "approved" ELSE "denied"
    IN  IF i = 0
        THEN LET made == [id |-> request_id, tool_name |-> "", payload |-> EmptyDict,
                          status |-> verdict, created_at |-> isoformat(now),
                          resolved_at |-> isoformat(now), resolution |-> verdict]
             IN  [items |-> Append(items, made), found |-> TRUE, returned |-> made]
        ELSE LET updated == [items[i] EXCEPT !.status = verdict,
                                             !.resolved_at = isoformat(now),
                                             !.resolution = verdict]
             IN  [items |-> [items EXCEPT ![i] = updated], found |-> TRUE,
                  returned |-> updated]

\* a resolve whose loop stamps every record instead of the one with the id
ConsentStore_resolve_all(items, request_id, approved, now) ==
    LET i == FirstWithId(items, request_id)
        verdict == IF approved THEN "approved" ELSE "denied"
        stamped == [k \in DOMAIN items |->
                       [items[k] EXCEPT !.status = verdict,
                                        !.resolved_at = isoformat(now),
                                        !.resolution = verdict]]
    IN  IF i = 0 THEN [items |-> items, found |-> FALSE, returned |-> EmptyDict]
        ELSE [items |-> stamped, found |-> TRUE, returned |-> stamped[i]]

\* resolve returns None (found = FALSE) for an unknown id and saves nothing
ConsentStore_resolve(items, request_id, approved, now) ==
    LET i == FirstWithId(items, request_id) IN
    IF i = 0 THEN [items |-> items, found |-> FALSE, returned |-> EmptyDict]
    ELSE LET updated == [items[i] EXCEPT
                            !.status = IF approved THEN "approved" ELSE "denied",
                            !.resolved_at = isoformat(now),
                            !.resolution = IF approved THEN "approved" ELSE "denied"]
         IN  [items |-> [items EXCEPT ![i] = updated], found |-> TRUE,
              returned |-> updated]

----------------------------------------------------------------------------
(* Inputs.                                                                 *)

\* values the approved argument takes, as Python reprs
ApprovedValues == {PyTrue, PyFalse, PyNone, "1", "0", "'true'", "'True'", "''"}

GatePayloads ==
    {[request |-> "x"]} \cup {[request |-> "x", approved |-> a] : a \in ApprovedValues}
    \cup {EmptyDict} \cup {[approved |-> a] : a \in ApprovedValues}

\* commands given as one string
CommandStrings ==
    {"ls -la", "rm -rf /", "ls --bogus", "", "   ", "date", "whoami", "uptime", "pwd",
     "ls", "ls -a -l", "ls -al -la", "'ls' -la", "ls \"-la\"", "ls '-la", "ls \"-a",
     "ls -la\\", "l\\s -a", "ls -la; rm -rf /", "date now", "ls ''", "\"\"",
     "ls -la /etc", "echo $(whoami)", "date\t", "ls\t-l"}

\* tokens of the commands given as a list
CommandTokens == {"ls", "-la", "--bogus", "date"}

RECURSIVE SeqsUpTo(_, _)
SeqsUpTo(S, n) ==
    IF n = 0 THEN {<<>>}
    ELSE LET shorter == SeqsUpTo(S, n - 1)
         IN  shorter \cup {Append(q, x) : q \in shorter, x \in S}

RunnerPayloads ==
    {EmptyDict, [command |-> OtherCmd], [approved |-> PyTrue]}
    \cup {[command |-> StrCmd(c)] : c \in CommandStrings}
    \cup {[command |-> ListCmd(q)] : q \in SeqsUpTo(CommandTokens, MaxTokens)}

ProviderNames == {"stub", "anthropic"}

\* what a consent request can be filed for: a sensitive capability and the
\* arguments synthesized for a message
ConsentInputs ==
    {[tool_name |-> "calendar_crud", message |-> "schedule a meeting tomorrow"],
     [tool_name |-> "email_message", message |-> "send the email now"],
     [tool_name |-> "smart_home_control", message |-> "turn on the lights"],
     [tool_name |-> "system_command", message |-> "run command ls -la"]}

StatusFilters == {PyNone, "", "pending", "approved", "denied"}

----------------------------------------------------------------------------
(* The state after start-up: every store is empty, nothing has run.        *)

NoResponse == [message |-> "", intent |-> "", provider |-> "", tool_calls |-> <<>>]
NoRun == [called |-> FALSE, payload |-> EmptyDict, raised |-> "", result |-> EmptyDict,
          spawn |-> <<>>, child |-> "none"]
NoAdapterCall == [adapter |-> "none"]
NoLedgerCall == [op |-> "none"]
NoAuditCall == [op |-> "none"]
NoIntegrationCall == [op |-> "none"]
NoRegistryCall == [op |-> "none"]
NoVoiceMessage == [op |-> "none"]

Credentials ==
    {"GOOGLE_CALENDAR_TOKEN", "OUTLOOK_CALENDAR_TOKEN", "GOOGLE_EMAIL_TOKEN",
     "OUTLOOK_EMAIL_TOKEN", "HOME_ASSISTANT_URL", "HOME_ASSISTANT_TOKEN"}

StartUp ==
    /\ response = NoResponse
    /\ handlerCalls = <<>>
    /\ calls = 0
    /\ memories = <<>>
    /\ tasks = [task_id |-> 0, items |-> <<>>]
    /\ events = EmptyDict
    /\ drafts = EmptyDict
    /\ emails = EmptyDict
    /\ haQueued = 0
    /\ adapterCalls = <<>>
    /\ adapterOut = NoAdapterCall
    /\ spawned = <<>>
    /\ runnerOut = NoRun
    /\ ledger = <<>>
    /\ ledgerOut = NoLedgerCall
    /\ auditLog = <<>>
    /\ auditOut = NoAuditCall
    /\ oauthStates = EmptyDict
    /\ secrets = EmptyDict
    /\ privacy = EmptyDict
    /\ integrationOut = NoIntegrationCall
    /\ workers = <<>>
    /\ tools = RegisterAll(EmptyRegistry, TOOLS)
    /\ registryOut = NoRegistryCall
    /\ audio_buffer = <<>>
    /\ text_only = PyFalse
    /\ transcribed = <<>>
    /\ voiceOut = NoVoiceMessage
    /\ nextId = 1
    /\ clock = 0

Init ==
    /\ probe = [op |-> "none"]
    /\ configured \in {{}, Credentials}
    /\ StartUp

----------------------------------------------------------------------------
(* The pure functions, applied to every input.                             *)

\* the inputs: a function and its arguments, not yet applied
InitPure ==
    /\ probe \in
         {[op |-> "check_permission", tool_name |-> t, payload |-> a, message |-> "",
           done |-> FALSE, out |-> EmptyDict] : t \in ToolNames, a \in GatePayloads}
         \cup
         {[op |-> "build_tool_arguments", tool_name |-> t, payload |-> EmptyDict,
           message |-> m, done |-> FALSE, out |-> EmptyDict] :
              t \in ToolNames, m \in Messages}
         \cup
         {[op |-> "detect_intent", tool_name |-> "", payload |-> EmptyDict,
           message |-> m, done |-> FALSE, out |-> EmptyDict] : m \in Messages}
    /\ configured = {}
    /\ StartUp

CheckPermission ==
    /\ probe.op = "check_permission" /\ ~probe.done
    /\ probe' = [probe EXCEPT !.done = TRUE,
                              !.out = check_permission(probe.tool_name, probe.payload)]
    /\ UNCHANGED <<agentVars, envVars, stateVars, adapterVars, runnerVars, ledgerVars,
                   auditVars, auditOut, integrationVars, concVars, registryVars, voiceVars, timeVars>>

BuildToolArguments ==
    /\ probe.op = "build_tool_arguments" /\ ~probe.done
    /\ probe' = [probe EXCEPT !.done = TRUE,
                              !.out = build_tool_arguments(probe.tool_name, probe.message)]
    /\ UNCHANGED <<agentVars, envVars, stateVars, adapterVars, runnerVars, ledgerVars,
                   auditVars, auditOut, integrationVars, concVars, registryVars, voiceVars, timeVars>>

DetectIntent ==
    /\ probe.op = "detect_intent" /\ ~probe.done
    /\ probe' = [probe EXCEPT !.done = TRUE,
                              !.out = [intent |-> detect_intent(probe.message)]]
    /\ UNCHANGED <<agentVars, envVars, stateVars, adapterVars, runnerVars, ledgerVars,
                   auditVars, auditOut, integrationVars, concVars, registryVars, voiceVars, timeVars>>

NextPure == CheckPermission \/ BuildToolArguments \/ DetectIntent

SpecPure == InitPure /\ [][NextPure]_vars

----------------------------------------------------------------------------
(* SafeCommandRunner.run, called with every payload.                       *)

Run(payload, proc) ==
    /\ calls < MaxRuns
    /\ \E r \in {SafeCommandRunner_run(payload, proc)} :
       /\ runnerOut' = [called |-> TRUE, payload |-> payload, raised |-> r.raised,
                        result |-> r.result, spawn |-> r.spawn, child |-> r.child]
       /\ spawned' = spawned \o r.spawn
    /\ calls' = calls + 1
    /\ UNCHANGED <<pureVars, agentVars, configured, stateVars, adapterVars, ledgerVars,
                   auditVars, auditOut, integrationVars, concVars, registryVars, voiceVars, timeVars>>

NextRunner == \E payload \in RunnerPayloads, proc \in ProcOutcomes : Run(payload, proc)

SpecRunner == Init /\ [][NextRunner]_vars

----------------------------------------------------------------------------
(* app/main.py: POST /chat                                                 *)

Stores ==
    [memories |-> memories, tasks |-> tasks, events |-> events, drafts |-> drafts,
     emails |-> emails, haQueued |-> haQueued, adapterCalls |-> adapterCalls,
     spawned |-> spawned, nextId |-> nextId]

\* a chat_endpoint that writes the audit entry only when a capability was attempted
ChatEndpoint_tools_only(message, provider_name, now, proc) ==
    /\ calls < MaxMessages
    /\ Len(message) >= 1
    /\ \E r \in {run_agent(message, provider_name, Stores,
                           [configured |-> configured, now |-> now, proc |-> proc])} :
           /\ response' = r.response
           /\ handlerCalls' = r.handlerCalls
           /\ memories' = r.st.memories
           /\ tasks' = r.st.tasks
           /\ events' = r.st.events
           /\ drafts' = r.st.drafts
           /\ emails' = r.st.emails
           /\ haQueued' = r.st.haQueued
           /\ adapterCalls' = r.st.adapterCalls
           /\ spawned' = r.st.spawned
           /\ IF r.response.raised = "" /\ r.response.tool_calls # <<>>
              THEN /\ auditLog' = AuditLogger_append(auditLog, "chat_received", "user",
                                     [intent |-> r.response.intent,
                                      provider |-> r.response.provider,
                                      tool_calls |-> [i \in DOMAIN r.response.tool_calls |->
                                                         r.response.tool_calls[i].name]],
                                     uuid4(r.st), now)
                   /\ nextId' = r.st.nextId + 1
              ELSE /\ auditLog' = auditLog
                   /\ nextId' = r.st.nextId
    /\ clock' = now
    /\ calls' = calls + 1
    /\ UNCHANGED <<pureVars, configured, adapterOut, runnerOut, ledgerVars, auditOut,
                   integrationVars, concVars, registryVars, voiceVars>>

\* chat_endpoint: ChatRequest wants a message of at least one character; then
\* run_agent, and one audit entry when run_agent returned
ChatEndpoint(message, provider_name, now, proc) ==
    /\ calls < MaxMessages
    /\ Len(message) >= 1
    /\ \E r \in {run_agent(message, provider_name, Stores,
                           [configured |-> configured, now |-> now, proc |-> proc])} :
           /\ response' = r.response
           /\ handlerCalls' = r.handlerCalls
           /\ memories' = r.st.memories
           /\ tasks' = r.st.tasks
           /\ events' = r.st.events
           /\ drafts' = r.st.drafts
           /\ emails' = r.st.emails
           /\ haQueued' = r.st.haQueued
           /\ adapterCalls' = r.st.adapterCalls
           /\ spawned' = r.st.spawned
           /\ IF r.response.raised = ""
              THEN /\ auditLog' = AuditLogger_append(auditLog, "chat_received", "user",
                                     [intent |-> r.response.intent,
                                      provider |-> r.response.provider,
                                      tool_calls |-> [i \in DOMAIN r.response.tool_calls |->
                                                         r.response.tool_calls[i].name]],
                                     uuid4(r.st), now)
                   /\ nextId' = r.st.nextId + 1
              ELSE /\ auditLog' = auditLog
                   /\ nextId' = r.st.nextId
    /\ clock' = now
    /\ calls' = calls + 1
    /\ UNCHANGED <<pureVars, configured, adapterOut, runnerOut, ledgerVars, auditOut,
                   integrationVars, concVars, registryVars, voiceVars>>

\* the child's behaviour matters to a message that can reach the command runner
ProcsFor(message) ==
    IF "system_command" \in Range(select_tools(IntentOf[message])) THEN ProcOutcomes
    ELSE {[kind |-> "exit", returncode |-> 0]}

NextAgent ==
    \E message \in ChatMessages, provider_name \in ProviderNames,
       now \in {clock, clock + 1} :
          \E proc \in ProcsFor(message) :
             ChatEndpoint(message, provider_name, now, proc)

SpecAgent == Init /\ [][NextAgent]_vars

----------------------------------------------------------------------------
(* The consent ledger: ConsentStore.create, GET /consent/requests and      *)
(* POST /consent/requests/{request_id}/resolve                             *)

CreateRequest(tool_name, payload, now) ==
    /\ calls < MaxLedgerOps
    /\ \E r \in {ConsentStore_create(ledger, tool_name, payload,
                                     "u" \o ToString(nextId), now)} :
           /\ ledger' = r.items
           /\ ledgerOut' = [op |-> "create", returned |-> r.returned]
    /\ nextId' = nextId + 1
    /\ clock' = now
    /\ calls' = calls + 1
    /\ UNCHANGED <<pureVars, agentVars, configured, stateVars, adapterVars, runnerVars,
                   auditVars, auditOut, integrationVars, concVars, registryVars, voiceVars>>

list_consent_requests(status) ==
    /\ calls < MaxLedgerOps
    /\ ledgerOut' = [op |-> "list", status |-> status,
                     returned |-> ConsentStore_list(ledger, status)]
    /\ calls' = calls + 1
    /\ UNCHANGED <<pureVars, agentVars, configured, stateVars, adapterVars, runnerVars,
                   ledger, auditVars, auditOut, integrationVars, concVars, registryVars, voiceVars, timeVars>>

\* resolve_consent: 404 when resolve returned None, else one audit entry
\* a resolve_consent that writes its audit entry before it looks at what
\* ConsentStore.resolve returned
resolve_consent_logs_first(request_id, approved, now) ==
    /\ calls < MaxLedgerOps
    /\ \E r \in {ConsentStore_resolve(ledger, request_id, approved, now)} :
       /\ ledger' = r.items
       /\ ledgerOut' = [op |-> "resolve", request_id |-> request_id, approved |-> approved,
                        found |-> r.found, returned |-> r.returned,
                        http |-> IF r.found THEN 200 ELSE 404]
    /\ auditLog' = AuditLogger_append(auditLog, "consent_resolved", "user",
                        [request_id |-> request_id, approved |-> approved],
                        "u" \o ToString(nextId), now)
    /\ nextId' = nextId + 1
    /\ clock' = now
    /\ calls' = calls + 1
    /\ UNCHANGED <<pureVars, agentVars, configured, stateVars, adapterVars, runnerVars,
                   auditOut, integrationVars, concVars, registryVars, voiceVars>>

resolve_consent(request_id, approved, now) ==
    /\ calls < MaxLedgerOps
    /\ \E r \in {ConsentStore_resolve(ledger, request_id, approved, now)} :
       /\ ledger' = r.items
       /\ ledgerOut' = [op |-> "resolve", request_id |-> request_id, approved |-> approved,
                        found |-> r.found, returned |-> r.returned,
                        http |-> IF r.found THEN 200 ELSE 404]
       /\ IF r.found
          THEN /\ auditLog' = AuditLogger_append(auditLog, "consent_resolved", "user",
                                 [request_id |-> request_id, approved |-> approved],
                                 "u" \o ToString(nextId), now)
               /\ nextId' = nextId + 1
          ELSE UNCHANGED <<auditLog, nextId>>
    /\ clock' = now
    /\ calls' = calls + 1
    /\ UNCHANGED <<pureVars, agentVars, configured, stateVars, adapterVars, runnerVars,
                   auditOut, integrationVars, concVars, registryVars, voiceVars>>

NextLedger ==
    \/ \E c \in ConsentInputs, now \in {clock, clock + 1} :
          CreateRequest(c.tool_name, build_tool_arguments(c.tool_name, c.message), now)
    \/ \E status \in StatusFilters : list_consent_requests(status)
    \/ \E request_id \in {ledger[i].id : i \in DOMAIN ledger} \cup {"unknown"},
          approved \in BOOLEAN, now \in {clock, clock + 1} :
          resolve_consent(request_id, approved, now)

SpecLedger == Init /\ [][NextLedger]_vars

----------------------------------------------------------------------------
(* Chat and consent resolution on a ledger that holds requests already:    *)
(* consent_requests.json outlives the process.                             *)

\* consent_requests.json as an earlier run can have left it
StoredLedgers ==
    LET one == ConsentStore_create(<<>>, "calendar_crud",
                   ArgumentsOf["calendar_crud", "schedule a meeting tomorrow"], "u1", 0).items
        two == ConsentStore_create(one, "system_command",
                   ArgumentsOf["system_command", "run command ls -la"], "u2", 0).items
    IN  {<<>>, one, two, ConsentStore_resolve(two, "u2", TRUE, 0).items}

ConsentMessages ==
    {"schedule a meeting tomorrow", "book a meeting approved=true", "send the email now",
     "turn on the lights", "run command ls -la", "remember to buy milk"}

InitConsent ==
    /\ probe = [op |-> "none"]
    /\ configured \in {{}, Credentials}
    /\ response = NoResponse
    /\ handlerCalls = <<>>
    /\ calls = 0
    /\ memories = <<>>
    /\ tasks = [task_id |-> 0, items |-> <<>>]
    /\ events = EmptyDict /\ drafts = EmptyDict /\ emails = EmptyDict
    /\ haQueued = 0
    /\ adapterCalls = <<>>
    /\ adapterOut = NoAdapterCall
    /\ spawned = <<>>
    /\ runnerOut = NoRun
    /\ ledger \in StoredLedgers
    /\ ledgerOut = NoLedgerCall
    /\ auditLog = <<>>
    /\ auditOut = NoAuditCall
    /\ oauthStates = EmptyDict /\ secrets = EmptyDict /\ privacy = EmptyDict
    /\ integrationOut = NoIntegrationCall
    /\ workers = <<>>
    /\ tools = RegisterAll(EmptyRegistry, TOOLS)
    /\ registryOut = NoRegistryCall
    /\ audio_buffer = <<>>
    /\ text_only = PyFalse
    /\ transcribed = <<>>
    /\ voiceOut = NoVoiceMessage
    /\ nextId = Len(ledger) + 1
    /\ clock = 1

NextConsent ==
    \/ \E message \in ConsentMessages, proc \in ProcOutcomes :
          ChatEndpoint(message, "stub", clock + 1, proc)
    \/ \E request_id \in {ledger[i].id : i \in DOMAIN ledger} \cup {"unknown"},
          approved \in BOOLEAN :
          resolve_consent(request_id, approved, clock + 1)
    \/ \E status \in {PyNone, "approved"} : list_consent_requests(status)

SpecConsent == InitConsent /\ [][NextConsent]_vars

----------------------------------------------------------------------------
(* The consent ledger under concurrent callers.  ConsentStore holds no     *)
(* lock: a call is _load (JsonStore.read), work on the loaded list, and    *)
(* _save (JsonStore.write), and write_text opens the file for writing,     *)
(* which empties it, before it writes the new text.                        *)

\* ledgers the sequential program can have written before the callers arrive
LedgerFiles ==
    LET one == ConsentStore_create(<<>>, "calendar_crud",
                   ArgumentsOf["calendar_crud", "schedule a meeting tomorrow"], "u1", 0).items
        two == ConsentStore_create(one, "email_message",
                   ArgumentsOf["email_message", "send the email now"], "u2", 0).items
    IN  {<<>>, one, two}

\* the calls that can be made on a ledger file
LedgerRequests(file) ==
    {[op |-> "create", tool_name |-> c.tool_name,
      payload |-> ArgumentsOf[c.tool_name, c.message], request_id |-> "", approved |-> FALSE] :
        c \in {[tool_name |-> "smart_home_control", message |-> "turn on the lights"],
               [tool_name |-> "system_command", message |-> "run command ls -la"]}}
    \cup {[op |-> "resolve", tool_name |-> "", payload |-> EmptyDict,
           request_id |-> file[i].id, approved |-> a] : i \in DOMAIN file, a \in BOOLEAN}

\* a caller that has not started: pc is the step it takes next, items the
\* list it holds in memory
Arrived(request) ==
    [op |-> request.op, tool_name |-> request.tool_name, payload |-> request.payload,
     request_id |-> request.request_id, approved |-> request.approved,
     pc |-> "load", items |-> <<>>, found |-> FALSE, returned |-> EmptyDict]

RECURSIVE TuplesOf(_, _)
TuplesOf(S, n) ==
    IF n = 0 THEN {<<>>} ELSE {Append(q, x) : q \in TuplesOf(S, n - 1), x \in S}

\* everything but the files and the callers is as after start-up
RestAtStartUp ==
    /\ probe = [op |-> "none"]
    /\ configured = {}
    /\ response = NoResponse
    /\ handlerCalls = <<>>
    /\ calls = 0
    /\ memories = <<>>
    /\ tasks = [task_id |-> 0, items |-> <<>>]
    /\ events = EmptyDict /\ drafts = EmptyDict /\ emails = EmptyDict
    /\ haQueued = 0
    /\ adapterCalls = <<>>
    /\ adapterOut = NoAdapterCall
    /\ spawned = <<>>
    /\ runnerOut = NoRun
    /\ ledgerOut = NoLedgerCall
    /\ auditOut = NoAuditCall
    /\ oauthStates = EmptyDict /\ secrets = EmptyDict /\ privacy = EmptyDict
    /\ integrationOut = NoIntegrationCall
    /\ tools = RegisterAll(EmptyRegistry, TOOLS)
    /\ registryOut = NoRegistryCall
    /\ audio_buffer = <<>>
    /\ text_only = PyFalse
    /\ transcribed = <<>>
    /\ voiceOut = NoVoiceMessage

InitLedgerConc ==
    /\ RestAtStartUp
    /\ ledger \in LedgerFiles
    /\ auditLog = <<>>
    /\ workers \in {[i \in DOMAIN q |-> Arrived(q[i])] :
                       q \in TuplesOf(LedgerRequests(ledger), MaxWorkers)}
    /\ nextId = Len(ledger) + 1
    /\ clock = 1

\* items = self._load(), then the work on the loaded list: create appends its
\* request; resolve stamps the item with the id and goes on to save only if
\* it found one
LedgerLoad(w) ==
    /\ workers[w].pc = "load"
    /\ IF workers[w].op = "create"
       THEN /\ \E r \in {ConsentStore_create(ledger, workers[w].tool_name, workers[w].payload,
                                             "u" \o ToString(nextId), clock)} :
                  workers' = [workers EXCEPT ![w].pc = "open", ![w].items = r.items,
                                             ![w].found = TRUE, ![w].returned = r.returned]
            /\ nextId' = nextId + 1
       ELSE /\ \E r \in {ConsentStore_resolve(ledger, workers[w].request_id,
                                              workers[w].approved, clock)} :
                  workers' = [workers EXCEPT ![w].pc = IF r.found THEN "open" ELSE "done",
                                             ![w].items = r.items, ![w].found = r.found,
                                             ![w].returned = r.returned]
            /\ nextId' = nextId
    /\ UNCHANGED <<pureVars, agentVars, envVars, stateVars, adapterVars, runnerVars,
                   ledgerVars, auditVars, auditOut, integrationVars, registryVars, voiceVars, clock>>

\* JsonStore.write: write_text opens the file with mode "w", which truncates it
LedgerOpenForWrite(w) ==
    /\ workers[w].pc = "open"
    /\ ledger' = <<>>
    /\ workers' = [workers EXCEPT ![w].pc = "write"]
    /\ UNCHANGED <<pureVars, agentVars, envVars, stateVars, adapterVars, runnerVars,
                   ledgerOut, auditVars, auditOut, integrationVars, registryVars, voiceVars, timeVars>>

\* JsonStore.write: the text of the caller's list is written and the file closed
LedgerWrite(w) ==
    /\ workers[w].pc = "write"
    /\ ledger' = workers[w].items
    /\ workers' = [workers EXCEPT ![w].pc = "done"]
    /\ UNCHANGED <<pureVars, agentVars, envVars, stateVars, adapterVars, runnerVars,
                   ledgerOut, auditVars, auditOut, integrationVars, registryVars, voiceVars, timeVars>>

NextLedgerConc ==
    \E w \in DOMAIN workers : LedgerLoad(w) \/ LedgerOpenForWrite(w) \/ LedgerWrite(w)

SpecLedgerConc == InitLedgerConc /\ [][NextLedgerConc]_vars

----------------------------------------------------------------------------
(* AuditLogger.append under concurrent callers: the entry is built, the    *)
(* file is opened with mode "a", the line goes into the handle's buffer,   *)
(* and leaving the with block flushes the buffer in one write.  A file     *)
(* opened for appending writes at the end of the file as it is then,       *)
(* wherever the end was when the file was opened.  The steps of a caller   *)
(* that touch nothing shared are taken together with the next one that     *)
(* does.                                                                   *)

\* a handle that writes where the file ended when it was opened
WriteAtOpenOffset(file, pos, data) ==
    SubSeq(file, 1, pos) \o data \o SubSeq(file, pos + Len(data) + 1, Len(file))

\* the file after data is written through a handle opened with mode "a" when
\* the file was pos lines long
AppendModeWrite(file, pos, data) == file \o data

\* what caller w appends as its k-th entry
AuditInput(w, k) ==
    [event |-> "oauth_disconnected", actor |-> "user",
     details |-> [provider |-> "p" \o ToString(w) \o "." \o ToString(k)]]

RECURSIVE SumOf(_)
SumOf(q) == IF q = <<>> THEN 0 ELSE Head(q) + SumOf(Tail(q))

\* a caller that will make n append calls, one after the other
Appender(w, n) ==
    [op |-> "append", todo |-> [k \in 1..n |-> AuditInput(w, k)], pc |-> "build",
     entry |-> EmptyDict, pos |-> 0, appended |-> <<>>]

InitAuditConc ==
    /\ RestAtStartUp
    /\ ledger = <<>>
    /\ auditLog = <<>>
    /\ workers \in {[w \in DOMAIN q |-> Appender(w, q[w])] :
                       q \in {t \in TuplesOf(1..MaxAppends, MaxWorkers) :
                                 SumOf(t) <= MaxAppends}}
    /\ nextId = 1
    /\ clock = 1

\* uuid4() in the k-th call of caller w: no two calls draw the same
CallerUuid(w, k) == "u" \o ToString(w) \o "-" \o ToString(k)

\* entry = AuditLogEntry(id=uuid4().hex, ..., created_at=now), then
\* self._path.open("a"): the handle is opened at the end of the file
AuditOpen(w) ==
    /\ workers[w].pc = "build"
    /\ workers[w].todo # <<>>
    /\ LET input == Head(workers[w].todo)
           line == AuditLogger_append(<<>>, input.event, input.actor, input.details,
                                      CallerUuid(w, Len(workers[w].appended) + 1),
                                      clock)[1]
       IN  workers' = [workers EXCEPT ![w].pc = "write", ![w].entry = line,
                                      ![w].todo = Tail(@), ![w].pos = Len(auditLog)]
    /\ UNCHANGED <<pureVars, agentVars, envVars, stateVars, adapterVars, runnerVars,
                   ledgerVars, auditVars, auditOut, integrationVars, registryVars, voiceVars, timeVars>>

\* handle.write(json.dumps(entry.__dict__) + "\n") fills the handle's buffer;
\* leaving the with block flushes it to the file and the entry is returned
AuditWriteClose(w) ==
    /\ workers[w].pc = "write"
    /\ \E buffer \in {<<workers[w].entry>>} :
          auditLog' = AppendModeWrite(auditLog, workers[w].pos, buffer)
    /\ workers' = [workers EXCEPT
                      ![w].pc = IF workers[w].todo = <<>> THEN "done" ELSE "build",
                      ![w].appended = Append(@, workers[w].entry)]
    /\ UNCHANGED <<pureVars, agentVars, envVars, stateVars, adapterVars, runnerVars,
                   ledgerVars, auditOut, integrationVars, registryVars, voiceVars, timeVars>>

NextAuditConc ==
    \E w \in DOMAIN workers : AuditOpen(w) \/ AuditWriteClose(w)

SpecAuditConc == InitAuditConc /\ [][NextAuditConc]_vars

----------------------------------------------------------------------------
(* The audit log: AuditLogger.append and GET /audit/logs                   *)

\* what the endpoints give AuditLogger.append
AuditInputs ==
    {[event |-> "chat_received", actor |-> "user",
      details |-> [intent |-> "calendar", provider |-> "stub",
                   tool_calls |-> <<"calendar_crud">>]],
     [event |-> "consent_resolved", actor |-> "user",
      details |-> [request_id |-> "u1", approved |-> TRUE]]}

\* the limits GET /audit/logs is asked for
Limits == (0 - 1)..(MaxAppends + 1)

AuditAppend(event, actor, details, now) ==
    /\ Len(auditLog) < MaxAppends
    /\ auditLog' = AuditLogger_append(auditLog, event, actor, details,
                                      "u" \o ToString(nextId), now)
    /\ auditOut' = [op |-> "append", event |-> event, actor |-> actor, details |-> details]
    /\ nextId' = nextId + 1
    /\ clock' = now
    /\ UNCHANGED <<pureVars, agentVars, envVars, stateVars, adapterVars, runnerVars,
                   ledgerVars, integrationVars, concVars, registryVars, voiceVars>>

list_audit_logs(limit) ==
    /\ auditOut' = [op |-> "list", limit |-> limit,
                    returned |-> AuditLogger_list_entries(auditLog, limit)]
    /\ UNCHANGED <<pureVars, agentVars, envVars, stateVars, adapterVars, runnerVars,
                   ledgerVars, auditVars, integrationVars, concVars, registryVars, voiceVars, timeVars>>

NextAudit ==
    \/ \E a \in AuditInputs, now \in {clock, clock + 1} :
          AuditAppend(a.event, a.actor, a.details, now)
    \/ \E limit \in Limits : list_audit_logs(limit)

SpecAudit == Init /\ [][NextAudit]_vars

----------------------------------------------------------------------------
(* app/integrations/oauth.py, app/storage/secrets_store.py,                *)
(* app/storage/privacy_store.py and their endpoints in app/main.py         *)

PROVIDERS ==
    [google |-> [name |-> "google", label |-> "Google",
                 auth_url |-> "https://accounts.google.com/o/oauth2/v2/auth",
                 client_id |-> "google-client-id", scopes |-> <<"calendar", "email">>],
     outlook |-> [name |-> "outlook", label |-> "Microsoft Outlook",
                  auth_url |-> "https://login.microsoftonline.com/common/oauth2/v2.0/authorize",
                  client_id |-> "outlook-client-id",
                  scopes |-> <<"calendars.readwrite", "mail.send">>],
     home_assistant |-> [name |-> "home_assistant", label |-> "Home Assistant",
                         auth_url |-> "https://my.home-assistant.io/redirect/oauth",
                         client_id |-> "home-assistant-client-id",
                         scopes |-> <<"read", "write">>]]

\* dict.pop(key, None) and del dict[key]: the mapping without the key
Without(dict, key) == [k \in DOMAIN dict \ {key} |-> dict[k]]

\* OAuthStateStore.create: the state is stored under a fresh token
OAuthStateStore_create(states, provider, redirect_uri, state, now) ==
    Put(states, state, [provider |-> provider, redirect_uri |-> redirect_uri,
                        created_at |-> isoformat(now)])

\* OAuthStateStore.pop: the file is written back whether or not the state was
\* there; value is None when found is FALSE
OAuthStateStore_pop(states, state) ==
    [states |-> Without(states, state), found |-> state \in DOMAIN states,
     value |-> Get(states, state, PyNone)]

\* urllib.parse.quote_plus of one character, for the characters of the inputs
QuotePlusChar(c) ==
    IF c = " " THEN "+"
    ELSE IF c = ":" THEN "%3A"
    ELSE IF c = "/" THEN "%2F"
    ELSE c

RECURSIVE QuotePlus(_)
QuotePlus(s) ==
    IF Len(s) = 0 THEN "" ELSE QuotePlusChar(CharAt(s, 1)) \o QuotePlus(SubSeq(s, 2, Len(s)))

\* " ".join(parts)
RECURSIVE JoinSpace(_)
JoinSpace(parts) ==
    IF Len(parts) = 0 THEN ""
    ELSE IF Len(parts) = 1 THEN parts[1]
    ELSE parts[1] \o " " \o JoinSpace(Tail(parts))

authorization_url(provider, redirect_uri, state) ==
    provider.auth_url \o "?response_type=code"
        \o "&client_id=" \o QuotePlus(provider.client_id)
        \o "&redirect_uri=" \o QuotePlus(redirect_uri)
        \o "&scope=" \o QuotePlus(JoinSpace(provider.scopes))
        \o "&state=" \o QuotePlus(state)
        \o "&access_type=offline&prompt=consent"

\* json.dumps(token_payload)
TokenJson(provider, code, connected_at) ==
    "{\"provider\": \"" \o provider \o "\", \"code\": \"" \o code
        \o "\", \"connected_at\": \"" \o connected_at \o "\"}"

\* SecretsManager.set_secret: created_at of an existing record is kept
\* a set_secret whose returned record carries the stored value as its key
SecretsManager_set_secret_leaky(store, key, value, metadata, now) ==
    LET created_at == Get(Get(store, key, EmptyDict), "created_at", isoformat(now))
    IN  [secrets |-> Put(store, key, [value |-> value, created_at |-> created_at,
                                       updated_at |-> isoformat(now),
                                       metadata |-> metadata]),
         record |-> [key |-> value, created_at |-> created_at,
                     updated_at |-> isoformat(now), metadata |-> metadata]]

SecretsManager_set_secret(store, key, value, metadata, now) ==
    LET created_at == Get(Get(store, key, EmptyDict), "created_at", isoformat(now))
    IN  [secrets |-> Put(store, key, [value |-> value, created_at |-> created_at,
                                       updated_at |-> isoformat(now),
                                       metadata |-> metadata]),
         record |-> [key |-> key, created_at |-> created_at,
                     updated_at |-> isoformat(now), metadata |-> metadata]]

SecretsManager_delete_secret(store, key) ==
    IF key \notin DOMAIN store THEN [secrets |-> store, deleted |-> FALSE]
    ELSE [secrets |-> Without(store, key), deleted |-> TRUE]

\* the keys of SecretsManager.list_secrets()
SecretsManager_list_secrets(store) == DOMAIN store

\* PrivacyStore.load: the defaults while nothing was saved
PrivacyStore_load(payload) ==
    IF payload = EmptyDict
    THEN [retention_days |-> 30, data_export_enabled |-> TRUE, delete_on_request |-> TRUE]
    ELSE [retention_days |-> Get(payload, "retention_days", 30),
          data_export_enabled |-> Get(payload, "data_export_enabled", TRUE),
          delete_on_request |-> Get(payload, "delete_on_request", TRUE)]

ProviderOrder == <<"google", "outlook", "home_assistant">>

list_integration_providers ==
    /\ calls < MaxRequests
    /\ integrationOut' =
          [op |-> "providers", http |-> 200,
           returned |-> [i \in DOMAIN ProviderOrder |->
                           [name |-> PROVIDERS[ProviderOrder[i]].name,
                            label |-> PROVIDERS[ProviderOrder[i]].label,
                            scopes |-> PROVIDERS[ProviderOrder[i]].scopes,
                            connected |-> ("oauth:" \o ProviderOrder[i])
                                             \in SecretsManager_list_secrets(secrets)]]]
    /\ calls' = calls + 1
    /\ UNCHANGED <<pureVars, agentVars, configured, stateVars, adapterVars, runnerVars,
                   ledgerVars, auditVars, auditOut, oauthStates, secrets, privacy,
                   concVars, registryVars, voiceVars, timeVars>>

start_oauth(provider, redirect_uri, now) ==
    /\ calls < MaxRequests
    /\ IF provider \notin DOMAIN PROVIDERS
       THEN /\ integrationOut' = [op |-> "start", http |-> 404, detail |-> "Unknown provider"]
            /\ UNCHANGED <<oauthStates, auditLog, nextId>>
       ELSE \E state \in {"h" \o ToString(nextId)} :
               /\ oauthStates' = OAuthStateStore_create(oauthStates, provider,
                                                        redirect_uri, state, now)
               /\ auditLog' = AuditLogger_append(auditLog, "oauth_started", "user",
                                  [provider |-> provider, redirect_uri |-> redirect_uri],
                                  "u" \o ToString(nextId + 1), now)
               /\ integrationOut' =
                      [op |-> "start", http |-> 200, state |-> state,
                       auth_url |-> authorization_url(PROVIDERS[provider],
                                                      redirect_uri, state)]
               /\ nextId' = nextId + 2
    /\ clock' = now
    /\ calls' = calls + 1
    /\ UNCHANGED <<pureVars, agentVars, configured, stateVars, adapterVars, runnerVars,
                   ledgerVars, auditOut, secrets, privacy, concVars, registryVars, voiceVars>>

\* a callback that takes a stored state whatever provider it was issued for
oauth_callback_any_state(provider, code, state, now) ==
    /\ calls < MaxRequests
    /\ IF provider \notin DOMAIN PROVIDERS
       THEN /\ integrationOut' = [op |-> "callback", http |-> 404,
                                  detail |-> "Unknown provider"]
            /\ UNCHANGED <<oauthStates, secrets, auditLog, nextId>>
       ELSE \E popped \in {OAuthStateStore_pop(oauthStates, state)} :
               /\ oauthStates' = popped.states
               /\ IF ~popped.found
                  THEN /\ integrationOut' = [op |-> "callback", http |-> 400,
                                             detail |-> "Invalid OAuth state"]
                       /\ UNCHANGED <<secrets, auditLog, nextId>>
                  ELSE \E r \in {SecretsManager_set_secret(secrets, "oauth:" \o provider,
                                     TokenJson(provider, code, isoformat(now)),
                                     [provider |-> provider,
                                      scopes |-> PROVIDERS[provider].scopes], now)} :
                          /\ secrets' = r.secrets
                          /\ auditLog' = AuditLogger_append(auditLog, "oauth_completed",
                                             "user",
                                             [provider |-> provider,
                                              secret_key |-> r.record.key],
                                             "u" \o ToString(nextId), now)
                          /\ integrationOut' = [op |-> "callback", http |-> 200,
                                                status |-> "connected",
                                                provider |-> provider]
                          /\ nextId' = nextId + 1
    /\ clock' = now
    /\ calls' = calls + 1
    /\ UNCHANGED <<pureVars, agentVars, configured, stateVars, adapterVars, runnerVars,
                   ledgerVars, auditOut, privacy, concVars, registryVars, voiceVars>>

oauth_callback(provider, code, state, now) ==
    /\ calls < MaxRequests
    /\ IF provider \notin DOMAIN PROVIDERS
       THEN /\ integrationOut' = [op |-> "callback", http |-> 404,
                                  detail |-> "Unknown provider"]
            /\ UNCHANGED <<oauthStates, secrets, auditLog, nextId>>
       ELSE \E popped \in {OAuthStateStore_pop(oauthStates, state)} :
               /\ oauthStates' = popped.states
               /\ IF ~popped.found \/ popped.value.provider # provider
                  THEN /\ integrationOut' = [op |-> "callback", http |-> 400,
                                             detail |-> "Invalid OAuth state"]
                       /\ UNCHANGED <<secrets, auditLog, nextId>>
                  ELSE \E r \in {SecretsManager_set_secret(secrets, "oauth:" \o provider,
                                     TokenJson(provider, code, isoformat(now)),
                                     [provider |-> provider,
                                      scopes |-> PROVIDERS[provider].scopes], now)} :
                          /\ secrets' = r.secrets
                          /\ auditLog' = AuditLogger_append(auditLog, "oauth_completed",
                                             "user",
                                             [provider |-> provider,
                                              secret_key |-> r.record.key],
                                             "u" \o ToString(nextId), now)
                          /\ integrationOut' = [op |-> "callback", http |-> 200,
                                                status |-> "connected",
                                                provider |-> provider]
                          /\ nextId' = nextId + 1
    /\ clock' = now
    /\ calls' = calls + 1
    /\ UNCHANGED <<pureVars, agentVars, configured, stateVars, adapterVars, runnerVars,
                   ledgerVars, auditOut, privacy, concVars, registryVars, voiceVars>>

disconnect_integration(provider, now) ==
    /\ calls < MaxRequests
    /\ \E r \in {SecretsManager_delete_secret(secrets, "oauth:" \o provider)} :
          /\ secrets' = r.secrets
          /\ IF ~r.deleted
             THEN /\ integrationOut' = [op |-> "disconnect", http |-> 404,
                                        detail |-> "Integration not connected"]
                  /\ UNCHANGED <<auditLog, nextId>>
             ELSE /\ auditLog' = AuditLogger_append(auditLog, "oauth_disconnected", "user",
                                     [provider |-> provider],
                                     "u" \o ToString(nextId), now)
                  /\ integrationOut' = [op |-> "disconnect", http |-> 200,
                                        status |-> "disconnected", provider |-> provider]
                  /\ nextId' = nextId + 1
    /\ clock' = now
    /\ calls' = calls + 1
    /\ UNCHANGED <<pureVars, agentVars, configured, stateVars, adapterVars, runnerVars,
                   ledgerVars, auditOut, oauthStates, privacy, concVars, registryVars, voiceVars>>

get_privacy_settings ==
    /\ calls < MaxRequests
    /\ integrationOut' = [op |-> "privacy_get", http |-> 200,
                          returned |-> PrivacyStore_load(privacy)]
    /\ calls' = calls + 1
    /\ UNCHANGED <<pureVars, agentVars, configured, stateVars, adapterVars, runnerVars,
                   ledgerVars, auditVars, auditOut, oauthStates, secrets, privacy,
                   concVars, registryVars, voiceVars, timeVars>>

\* update_privacy_settings: PrivacySettingsRequest wants 1 <= retention_days <= 3650
update_privacy_settings(retention_days, data_export_enabled, delete_on_request, now) ==
    /\ calls < MaxRequests
    /\ IF retention_days < 1 \/ retention_days > 3650
       THEN /\ integrationOut' = [op |-> "privacy_put", http |-> 422]
            /\ UNCHANGED <<privacy, auditLog, nextId>>
       ELSE \E saved \in {[retention_days |-> retention_days,
                           data_export_enabled |-> data_export_enabled,
                           delete_on_request |-> delete_on_request]} :
               /\ privacy' = saved
               /\ auditLog' = AuditLogger_append(auditLog, "privacy_settings_updated",
                                  "user", saved, "u" \o ToString(nextId), now)
               /\ integrationOut' = [op |-> "privacy_put", http |-> 200,
                                     returned |-> saved]
               /\ nextId' = nextId + 1
    /\ clock' = now
    /\ calls' = calls + 1
    /\ UNCHANGED <<pureVars, agentVars, configured, stateVars, adapterVars, runnerVars,
                   ledgerVars, auditOut, oauthStates, secrets, concVars, registryVars, voiceVars>>

----------------------------------------------------------------------------
(* The OAuth state store under concurrent callers.  OAuthStateStore holds  *)
(* no lock: create and pop are JsonStore.read, a change of the loaded      *)
(* mapping, and JsonStore.write, whose write_text opens the file for       *)
(* writing, which empties it, before it writes the new text.  After the    *)
(* store call the endpoint goes on to the secret and the audit log.        *)

\* state files the sequential program can have written before the callers arrive
OAuthStateFiles ==
    {EmptyDict, OAuthStateStore_create(EmptyDict, "google", "https://app/cb", "h1", 0)}

\* the requests that can be made on a state file
OAuthRequests(file) ==
    {[op |-> "start", provider |-> p, state |-> ""] : p \in {"google", "outlook"}}
    \cup {[op |-> "callback", provider |-> "google", state |-> st] :
             st \in DOMAIN file \cup {"h0"}}

\* a caller that has not started: pc is the step it takes next, states the
\* mapping it holds in memory, value what pop returned to it
OAuthArrived(request) ==
    [op |-> request.op, provider |-> request.provider, state |-> request.state,
     pc |-> "read", states |-> EmptyDict, found |-> FALSE, value |-> EmptyDict,
     http |-> 0]

InitOAuthConc ==
    /\ probe = [op |-> "none"]
    /\ configured = {}
    /\ response = NoResponse
    /\ handlerCalls = <<>>
    /\ calls = 0
    /\ memories = <<>>
    /\ tasks = [task_id |-> 0, items |-> <<>>]
    /\ events = EmptyDict /\ drafts = EmptyDict /\ emails = EmptyDict
    /\ haQueued = 0
    /\ adapterCalls = <<>>
    /\ adapterOut = NoAdapterCall
    /\ spawned = <<>>
    /\ runnerOut = NoRun
    /\ ledger = <<>>
    /\ ledgerOut = NoLedgerCall
    /\ auditLog = <<>>
    /\ auditOut = NoAuditCall
    /\ secrets = EmptyDict /\ privacy = EmptyDict
    /\ integrationOut = NoIntegrationCall
    /\ tools = RegisterAll(EmptyRegistry, TOOLS)
    /\ registryOut = NoRegistryCall
    /\ audio_buffer = <<>>
    /\ text_only = PyFalse
    /\ transcribed = <<>>
    /\ voiceOut = NoVoiceMessage
    /\ \E file \in OAuthStateFiles :
          /\ oauthStates = file
          /\ workers \in {[i \in DOMAIN q |-> OAuthArrived(q[i])] :
                             q \in TuplesOf(OAuthRequests(file), MaxWorkers)}
          /\ nextId = Cardinality(DOMAIN file) + 1
    /\ clock = 1

\* payload = self._store.read(...), then the change of the loaded mapping:
\* create puts its fresh state in, pop takes the presented one out
OAuthRead(w) ==
    /\ workers[w].pc = "read"
    /\ IF workers[w].op = "start"
       THEN /\ \E state \in {"h" \o ToString(nextId)} :
                  workers' = [workers EXCEPT
                                 ![w].pc = "open", ![w].state = state,
                                 ![w].states = OAuthStateStore_create(oauthStates,
                                                   workers[w].provider, "https://app/cb",
                                                   state, clock)]
            /\ nextId' = nextId + 1
       ELSE /\ \E popped \in {OAuthStateStore_pop(oauthStates, workers[w].state)} :
                  workers' = [workers EXCEPT
                                 ![w].pc = "open", ![w].states = popped.states,
                                 ![w].found = popped.found,
                                 ![w].value = IF popped.found THEN popped.value
                                              ELSE EmptyDict]
            /\ nextId' = nextId
    /\ UNCHANGED <<pureVars, agentVars, envVars, stateVars, adapterVars, runnerVars,
                   ledgerVars, auditVars, auditOut, integrationVars, registryVars, voiceVars, clock>>

\* JsonStore.write: write_text opens the file with mode "w", which truncates
\* it; JsonStore.read gives the default, no states, for an empty file
OAuthOpenForWrite(w) ==
    /\ workers[w].pc = "open"
    /\ oauthStates' = EmptyDict
    /\ workers' = [workers EXCEPT ![w].pc = "write"]
    /\ UNCHANGED <<pureVars, agentVars, envVars, stateVars, adapterVars, runnerVars,
                   ledgerVars, auditVars, auditOut, secrets, privacy, integrationOut,
                   registryVars, voiceVars, timeVars>>

\* JsonStore.write: the text of the caller's mapping is written and the file closed
OAuthWrite(w) ==
    /\ workers[w].pc = "write"
    /\ oauthStates' = workers[w].states
    /\ workers' = [workers EXCEPT ![w].pc = "finish"]
    /\ UNCHANGED <<pureVars, agentVars, envVars, stateVars, adapterVars, runnerVars,
                   ledgerVars, auditVars, auditOut, secrets, privacy, integrationOut,
                   registryVars, voiceVars, timeVars>>

\* the rest of the endpoint: start_oauth appends its audit entry;
\* oauth_callback refuses a state that was not there or is of another
\* provider, else stores the secret and appends its audit entry
OAuthFinish(w) ==
    /\ workers[w].pc = "finish"
    /\ IF workers[w].op = "start"
       THEN /\ auditLog' = AuditLogger_append(auditLog, "oauth_started", "user",
                               [provider |-> workers[w].provider,
                                redirect_uri |-> "https://app/cb"],
                               "u" \o ToString(nextId), clock)
            /\ workers' = [workers EXCEPT ![w].pc = "done", ![w].http = 200]
            /\ UNCHANGED secrets
       ELSE IF ~workers[w].found \/ workers[w].value.provider # workers[w].provider
       THEN /\ workers' = [workers EXCEPT ![w].pc = "done", ![w].http = 400]
            /\ UNCHANGED <<secrets, auditLog>>
       ELSE \E r \in {SecretsManager_set_secret(secrets, "oauth:" \o workers[w].provider,
                          TokenJson(workers[w].provider, "4/0AX", isoformat(clock)),
                          [provider |-> workers[w].provider,
                           scopes |-> PROVIDERS[workers[w].provider].scopes], clock)} :
               /\ secrets' = r.secrets
               /\ auditLog' = AuditLogger_append(auditLog, "oauth_completed", "user",
                                  [provider |-> workers[w].provider,
                                   secret_key |-> r.record.key],
                                  "u" \o ToString(nextId), clock)
               /\ workers' = [workers EXCEPT ![w].pc = "done", ![w].http = 200]
    /\ nextId' = nextId + 1
    /\ UNCHANGED <<pureVars, agentVars, envVars, stateVars, adapterVars, runnerVars,
                   ledgerVars, auditOut, oauthStates, privacy, integrationOut,
                   registryVars, voiceVars, clock>>

NextOAuthConc ==
    \E w \in DOMAIN workers :
       OAuthRead(w) \/ OAuthOpenForWrite(w) \/ OAuthWrite(w) \/ OAuthFinish(w)

SpecOAuthConc == InitOAuthConc /\ [][NextOAuthConc]_vars

----------------------------------------------------------------------------
(* app/tools/adapters.py: the adapters' handle methods, called directly    *)

\* the credential variables that are set: none, those of Google (and the
\* Home Assistant URL without its token), all
CredentialSets ==
    {{}, {"GOOGLE_CALENDAR_TOKEN", "GOOGLE_EMAIL_TOKEN", "HOME_ASSISTANT_URL"}, Credentials}

AdapterProviders == {"google", "outlook", "icloud"}

\* action and payload of a CalendarAdapter.handle call
CalendarCalls ==
    {[action |-> "create", payload |-> [title |-> "Standup", start |-> "09:00"]],
     [action |-> "create", payload |-> [title |-> PyNone]],
     [action |-> "update", payload |-> [event_id |-> "evt_1", title |-> "Moved",
                                        location |-> PyNone]],
     [action |-> "update", payload |-> [event_id |-> "evt_9", title |-> "Moved"]],
     [action |-> "update", payload |-> [event_id |-> "evt_1", id |-> "evt_7"]],
     [action |-> "update", payload |-> [event_id |-> PyNone]],
     [action |-> "delete", payload |-> [event_id |-> "evt_1"]],
     [action |-> "delete", payload |-> EmptyDict],
     [action |-> "list", payload |-> EmptyDict],
     [action |-> "purge", payload |-> EmptyDict]}

\* action and payload of an EmailAdapter.handle call
EmailCalls ==
    {[action |-> "search", payload |-> [query |-> PyNone]],
     [action |-> "search", payload |-> [query |-> "hi"]],
     [action |-> "search", payload |-> EmptyDict],
     [action |-> "compose", payload |-> [subject |-> "Hi there", to |-> <<"bob">>]],
     [action |-> "compose", payload |-> [subject |-> PyNone]],
     [action |-> "send", payload |-> [draft_id |-> "draft_1"]],
     [action |-> "send", payload |-> [draft_id |-> "draft_9"]],
     [action |-> "send", payload |-> [subject |-> "Hi", draft_id |-> PyNone]],
     [action |-> "archive", payload |-> EmptyDict]}

HomeAssistantPayloads ==
    {EmptyDict, [service |-> "turn_on", entity_id |-> "light.kitchen"]}

\* the clock readings a call can see: only a call that draws an id from the
\* clock tells them apart
Instants(action) ==
    IF action \in {"create", "compose", "send"} THEN {clock, clock + 1} ELSE {clock}

InitAdapters ==
    /\ probe = [op |-> "none"]
    /\ configured \in CredentialSets
    /\ StartUp

CalendarHandle(provider, action, payload, now) ==
    /\ calls < MaxAdapterCalls
    /\ \E r \in {CalendarAdapter_handle(provider, action, payload, Stores,
                       [configured |-> configured, now |-> now,
                        proc |-> [kind |-> "exit", returncode |-> 0]])} :
          /\ events' = r.st.events
          /\ adapterCalls' = r.st.adapterCalls
          /\ adapterOut' = [adapter |-> "calendar", provider |-> provider,
                            action |-> action, payload |-> payload,
                            raised |-> r.raised, result |-> r.result]
    /\ clock' = now
    /\ calls' = calls + 1
    /\ UNCHANGED <<pureVars, response, handlerCalls, configured, stateVars, drafts, emails,
                   haQueued, spawned, runnerOut, ledgerVars, auditVars, auditOut,
                   integrationVars, concVars, registryVars, voiceVars, nextId>>

EmailHandle(provider, action, payload, now) ==
    /\ calls < MaxAdapterCalls
    /\ \E r \in {EmailAdapter_handle(provider, action, payload, Stores,
                       [configured |-> configured, now |-> now,
                        proc |-> [kind |-> "exit", returncode |-> 0]])} :
          /\ drafts' = r.st.drafts
          /\ emails' = r.st.emails
          /\ adapterCalls' = r.st.adapterCalls
          /\ adapterOut' = [adapter |-> "email", provider |-> provider,
                            action |-> action, payload |-> payload,
                            raised |-> r.raised, result |-> r.result]
    /\ clock' = now
    /\ calls' = calls + 1
    /\ UNCHANGED <<pureVars, response, handlerCalls, configured, stateVars, events,
                   haQueued, spawned, runnerOut, ledgerVars, auditVars, auditOut,
                   integrationVars, concVars, registryVars, voiceVars, nextId>>

HomeAssistantHandle(payload) ==
    /\ calls < MaxAdapterCalls
    /\ \E r \in {HomeAssistantAdapter_handle(payload, Stores,
                       [configured |-> configured, now |-> clock,
                        proc |-> [kind |-> "exit", returncode |-> 0]])} :
          /\ haQueued' = r.st.haQueued
          /\ adapterCalls' = r.st.adapterCalls
          /\ adapterOut' = [adapter |-> "home_assistant", provider |-> "",
                            action |-> "", payload |-> payload,
                            raised |-> r.raised, result |-> r.result]
    /\ calls' = calls + 1
    /\ UNCHANGED <<pureVars, response, handlerCalls, configured, stateVars, events, drafts,
                   emails, spawned, runnerOut, ledgerVars, auditVars, auditOut,
                   integrationVars, concVars, registryVars, voiceVars, nextId, clock>>

NextAdapters ==
    \/ \E provider \in AdapterProviders, c \in CalendarCalls :
          \E now \in Instants(c.action) :
             CalendarHandle(provider, c.action, c.payload, now)
    \/ \E provider \in AdapterProviders, c \in EmailCalls :
          \E now \in Instants(c.action) :
             EmailHandle(provider, c.action, c.payload, now)
    \/ \E payload \in HomeAssistantPayloads : HomeAssistantHandle(payload)

SpecAdapters == InitAdapters /\ [][NextAdapters]_vars

----------------------------------------------------------------------------
(* app/tools/registry.py: the sensitive handlers, called directly          *)

\* what a caller puts under approved; Absent leaves the field out
Absent == "absent"

WithApproved(payload, a) ==
    IF a = Absent THEN payload
    ELSE [k \in DOMAIN payload \cup {"approved"} |->
             IF k = "approved" THEN a ELSE payload[k]]

\* the arguments of a direct handler call, before the approved field
HandlerArguments ==
    [calendar_crud |-> [action |-> "create", title |-> "Standup"],
     email_message |-> [action |-> "send", subject |-> "Hi"],
     smart_home_control |-> [service |-> "turn_on", entity_id |-> "light.kitchen"],
     system_command |-> [command |-> StrCmd("ls -la")]]

CallHandler(name, payload, now, proc) ==
    /\ calls < MaxHandlerCalls
    /\ \E r \in {Handler(name, payload, Stores,
                         [configured |-> configured, now |-> now, proc |-> proc])} :
          /\ probe' = [op |-> "handler", done |-> TRUE, name |-> name,
                       payload |-> payload, raised |-> r.raised, result |-> r.result]
          /\ memories' = r.st.memories
          /\ tasks' = r.st.tasks
          /\ events' = r.st.events
          /\ drafts' = r.st.drafts
          /\ emails' = r.st.emails
          /\ haQueued' = r.st.haQueued
          /\ adapterCalls' = r.st.adapterCalls
          /\ spawned' = r.st.spawned
          /\ nextId' = r.st.nextId
    /\ clock' = now
    /\ calls' = calls + 1
    /\ UNCHANGED <<agentVars, configured, adapterOut, runnerOut, ledgerVars, auditVars,
                   auditOut, integrationVars, concVars, registryVars, voiceVars>>

NextHandlers ==
    \E name \in DOMAIN HandlerArguments, a \in ApprovedValues \cup {Absent} :
       \E proc \in (IF name = "system_command" THEN ProcOutcomes
                    ELSE {[kind |-> "exit", returncode |-> 0]}) :
          CallHandler(name, WithApproved(HandlerArguments[name], a), clock + 1, proc)

SpecHandlers == InitAdapters /\ [][NextHandlers]_vars

----------------------------------------------------------------------------
(* app/voice/pipeline.py and the /voice endpoint of app/main.py: one        *)
(* connection, its messages handled one after the other.  Bytes are held   *)
(* as numbers; a chunk is a sequence of them.                              *)

\* bool(value) of a value held as its Python repr
Truthy(value) == value \notin {PyFalse, PyNone, "0", "''"}

\* a flush_audio that leaves the buffer as it was
VoiceSession_flush_audio_keep(buffer) ==
    IF buffer = <<>> THEN [called |-> FALSE, audio |-> <<>>, buffer |-> buffer]
    ELSE [called |-> TRUE, audio |-> buffer, buffer |-> buffer]

\* VoiceSession.add_audio_chunk: the buffer after the call
VoiceSession_add_audio_chunk(buffer, textOnly, chunk) ==
    IF Truthy(textOnly) THEN buffer ELSE buffer \o chunk

\* VoiceSession.flush_audio up to the call of the provider: called is whether
\* stt_provider.transcribe is called, audio what it is given, buffer the
\* buffer after the clear
VoiceSession_flush_audio(buffer) ==
    IF buffer = <<>> THEN [called |-> FALSE, audio |-> <<>>, buffer |-> buffer]
    ELSE [called |-> TRUE, audio |-> buffer, buffer |-> <<>>]

\* VoiceSession.stream_tts: what goes to the websocket
stream_tts(text) ==
    IF text = "" THEN <<>> ELSE <<[bytes |-> "tts:" \o text], [event |-> "tts_end"]>>

\* what the start event carries under text_only; Absent leaves the field out
TextOnlyValues == {PyTrue, PyFalse, PyNone, "'false'", "0", Absent}

\* a chunk of audio: empty, or two bytes that name the message that brought it
AudioChunks == {<<>>, <<calls + 1, calls + 1>>}

\* what stt_provider.transcribe does with the audio
SttOutcomes == {[raised |-> "", text |-> "turn on the lights"], [raised |-> "", text |-> ""],
                [raised |-> "RuntimeError", text |-> ""]}

\* the connection is served until an exception leaves the loop
VoiceOpen == calls < MaxVoiceMessages /\ voiceOut.op # "closed"

\* event start
VoiceStart(value) ==
    /\ VoiceOpen
    /\ text_only' = IF value = Absent THEN PyFalse ELSE value
    /\ voiceOut' = [op |-> "start",
                    sent |-> <<[event |-> "ready",
                                mode |-> IF Truthy(text_only') THEN "text" ELSE "audio"]>>]
    /\ calls' = calls + 1
    /\ UNCHANGED <<pureVars, agentVars, configured, stateVars, adapterVars, runnerVars,
                   ledgerVars, auditVars, auditOut, integrationVars, concVars, registryVars,
                   audio_buffer, transcribed, timeVars>>

\* event text
VoiceText(text) ==
    /\ VoiceOpen
    /\ voiceOut' = [op |-> "text",
                    sent |-> <<[event |-> "transcript", text |-> text]>> \o stream_tts(text)]
    /\ calls' = calls + 1
    /\ UNCHANGED <<pureVars, agentVars, configured, stateVars, adapterVars, runnerVars,
                   ledgerVars, auditVars, auditOut, integrationVars, concVars, registryVars,
                   audio_buffer, text_only, transcribed, timeVars>>

\* event end: flush_audio, then the transcript and its speech are sent; an
\* exception of the provider leaves voice_endpoint
VoiceEnd(stt) ==
    /\ VoiceOpen
    /\ \E r \in {VoiceSession_flush_audio(audio_buffer)} :
          /\ audio_buffer' = r.buffer
          /\ transcribed' = IF r.called THEN Append(transcribed, r.audio) ELSE transcribed
          /\ voiceOut' =
                IF r.called /\ stt.raised # ""
                THEN [op |-> "closed", raised |-> stt.raised, sent |-> <<>>]
                ELSE LET transcript == IF r.called THEN stt.text ELSE "" IN
                     [op |-> "end", transcript |-> transcript,
                      sent |-> <<[event |-> "transcript", text |-> transcript]>>
                                  \o stream_tts(transcript)]
    /\ calls' = calls + 1
    /\ UNCHANGED <<pureVars, agentVars, configured, stateVars, adapterVars, runnerVars,
                   ledgerVars, auditVars, auditOut, integrationVars, concVars, registryVars,
                   text_only, timeVars>>

\* any other event
VoiceUnknownEvent(event) ==
    /\ VoiceOpen
    /\ voiceOut' = [op |-> "unknown",
                    sent |-> <<[event |-> "error",
                                message |-> "Unknown event: " \o event]>>]
    /\ calls' = calls + 1
    /\ UNCHANGED <<pureVars, agentVars, configured, stateVars, adapterVars, runnerVars,
                   ledgerVars, auditVars, auditOut, integrationVars, concVars, registryVars,
                   audio_buffer, text_only, transcribed, timeVars>>

\* a text frame that is not JSON: parse_control_message raises ValueError
VoiceBadJson ==
    /\ VoiceOpen
    /\ voiceOut' = [op |-> "closed", raised |-> "ValueError", sent |-> <<>>]
    /\ calls' = calls + 1
    /\ UNCHANGED <<pureVars, agentVars, configured, stateVars, adapterVars, runnerVars,
                   ledgerVars, auditVars, auditOut, integrationVars, concVars, registryVars,
                   audio_buffer, text_only, transcribed, timeVars>>

\* a bytes frame
VoiceBytes(chunk) ==
    /\ VoiceOpen
    /\ audio_buffer' = VoiceSession_add_audio_chunk(audio_buffer, text_only, chunk)
    /\ voiceOut' = [op |-> "bytes", chunk |-> chunk, sent |-> <<>>]
    /\ calls' = calls + 1
    /\ UNCHANGED <<pureVars, agentVars, configured, stateVars, adapterVars, runnerVars,
                   ledgerVars, auditVars, auditOut, integrationVars, concVars, registryVars,
                   text_only, transcribed, timeVars>>

NextVoice ==
    \/ \E value \in TextOnlyValues : VoiceStart(value)
    \/ \E text \in {"", "hello"} : VoiceText(text)
    \/ \E stt \in (IF audio_buffer = <<>> THEN {[raised |-> "", text |-> ""]}
                   ELSE SttOutcomes) : VoiceEnd(stt)
    \/ VoiceUnknownEvent("pause")
    \/ VoiceBadJson
    \/ \E chunk \in AudioChunks : VoiceBytes(chunk)

SpecVoice == Init /\ [][NextVoice]_vars

----------------------------------------------------------------------------
(* app/tools/registry.py: the capability table and its readers             *)

\* capabilities registered after start-up: a new name, the same name again,
\* and a name the table holds from the start
RegistrationInputs ==
    {Tool("echo", "Echo the input.", {"text"}, {"text"}),
     Tool("echo", "Echo the input twice.", {"text", "times"}, {}),
     Tool("ping", "Answer pong.", {}, {}),
     Tool("remember", "Store a note.", {"content"}, {})}

LookupNames == {"remember", "echo", "system_command", "unknown_tool"}

RegisterTool(tool) ==
    /\ calls < MaxRegistrations
    /\ tools' = register_tool(tools, tool)
    /\ registryOut' = [op |-> "register", tool |-> tool]
    /\ calls' = calls + 1
    /\ UNCHANGED <<pureVars, agentVars, configured, stateVars, adapterVars, runnerVars,
                   ledgerVars, auditVars, auditOut, integrationVars, concVars, voiceVars,
                   timeVars>>

\* get_tool(name): TOOLS[name] raises KeyError for a name the table lacks
GetTool(name) ==
    /\ registryOut' = IF Registered(name)
                      THEN [op |-> "get", name |-> name, raised |-> "",
                            returned |-> get_tool(name)]
                      ELSE [op |-> "get", name |-> name, raised |-> "KeyError"]
    /\ UNCHANGED <<pureVars, agentVars, envVars, stateVars, adapterVars, runnerVars,
                   ledgerVars, auditVars, auditOut, integrationVars, concVars, tools,
                   voiceVars, timeVars>>

ListTools ==
    /\ registryOut' = [op |-> "list", returned |-> list_tools(tools)]
    /\ UNCHANGED <<pureVars, agentVars, envVars, stateVars, adapterVars, runnerVars,
                   ledgerVars, auditVars, auditOut, integrationVars, concVars, tools,
                   voiceVars, timeVars>>

\* a discovery call that empties the table it has listed
AvailableTools_draining ==
    /\ registryOut' = [op |-> "payload", returned |-> available_tools_payload(tools)]
    /\ tools' = EmptyRegistry
    /\ UNCHANGED <<pureVars, agentVars, envVars, stateVars, adapterVars, runnerVars,
                   ledgerVars, auditVars, auditOut, integrationVars, concVars,
                   voiceVars, timeVars>>

\* capability discovery: available_tools_payload()
AvailableTools ==
    /\ registryOut' = [op |-> "payload", returned |-> available_tools_payload(tools)]
    /\ UNCHANGED <<pureVars, agentVars, envVars, stateVars, adapterVars, runnerVars,
                   ledgerVars, auditVars, auditOut, integrationVars, concVars, tools,
                   voiceVars, timeVars>>

NextRegistry ==
    \/ \E tool \in RegistrationInputs : RegisterTool(tool)
    \/ \E name \in LookupNames : GetTool(name)
    \/ ListTools
    \/ AvailableTools

SpecRegistry == Init /\ [][NextRegistry]_vars

----------------------------------------------------------------------------
(* The whole application: every endpoint of app/main.py that touches a     *)
(* store, and ConsentStore.create, one request at a time.                  *)

AppMessages == {"schedule a meeting tomorrow", "remember to buy milk"}
ProviderInputs == {"google", "outlook", "gitlab"}
RedirectUris == {"https://app/cb"}
RetentionInputs == {0, 30}
\* states a callback presents besides the stored ones: one never issued, and
\* the first one start issues, also after it was consumed
PresentedStates == {"h0", "h1"}
\* authorization codes handed to the callback
OAuthCodes == {"4/0AX", "zQ9-b"}

NextApp ==
    \/ \E message \in AppMessages :
          ChatEndpoint(message, "stub", clock + 1, [kind |-> "exit", returncode |-> 0])
    \/ CreateRequest("calendar_crud",
                     ArgumentsOf["calendar_crud", "schedule a meeting tomorrow"], clock + 1)
    \/ \E request_id \in {ledger[i].id : i \in DOMAIN ledger} \cup {"unknown"} :
          resolve_consent(request_id, TRUE, clock + 1)
    \/ \E status \in {PyNone} : list_consent_requests(status)
    \/ (calls < MaxRequests /\ list_audit_logs(2))
    \/ (calls < MaxRequests /\ AvailableTools)
    \/ list_integration_providers
    \/ \E provider \in ProviderInputs, redirect_uri \in RedirectUris :
          start_oauth(provider, redirect_uri, clock + 1)
    \/ \E provider \in ProviderInputs, state \in DOMAIN oauthStates \cup PresentedStates :
          \E code \in OAuthCodes : oauth_callback(provider, code, state, clock + 1)
    \/ \E provider \in ProviderInputs : disconnect_integration(provider, clock + 1)
    \/ get_privacy_settings
    \/ \E retention_days \in RetentionInputs :
          update_privacy_settings(retention_days, FALSE, TRUE, clock + 1)

SpecApp == Init /\ [][NextApp]_vars

----------------------------------------------------------------------------
(* Claims about the permission gate and the argument synthesizer.          *)

\* C3: check_permission allows every capability outside the sensitive set
\* whatever approved is; it allows a sensitive capability iff approved is the
\* boolean True (a missing field, False or any other value is denied); a denial
\* carries "Permission required to run <name>." and an allow the empty reason.
C3_GateDecision ==
    (probe.op = "check_permission" /\ probe.done) =>
        LET name == probe.tool_name
            sensitive == name \in {"calendar_crud", "email_message",
                                   "smart_home_control", "system_command"}
            approvedTrue == "approved" \in DOMAIN probe.payload
                            /\ probe.payload["approved"] = "True"
            denial == CASE name = "calendar_crud" -> "Permission required to run calendar_crud."
                        [] name = "email_message" -> "Permission required to run email_message."
                        [] name = "smart_home_control" ->
                                "Permission required to run smart_home_control."
                        [] name = "system_command" ->
                                "Permission required to run system_command."
                        [] OTHER -> ""
        IN  /\ ~sensitive => probe.out = [allowed |-> TRUE, reason |-> ""]
            /\ sensitive => (probe.out.allowed <=> approvedTrue)
            /\ probe.out.allowed => probe.out.reason = ""
            /\ ~probe.out.allowed => probe.out.reason = denial

\* a sensitive capability is denied for an approved value that is truthy but
\* is not the boolean True
C3_Witness ==
    /\ probe.op = "check_permission" /\ probe.done
    /\ probe.tool_name = "system_command"
    /\ probe.payload = [request |-> "x", approved |-> "'true'"]
    /\ ~probe.out.allowed

\* C4: build_tool_arguments gives every sensitive capability an approved field
\* equal to False, and gives no approved field to any other capability name.
C4_ApprovedDefaultsFalse ==
    (probe.op = "build_tool_arguments" /\ probe.done) =>
        IF probe.tool_name \in {"calendar_crud", "email_message", "smart_home_control",
                                "system_command"}
        THEN "approved" \in DOMAIN probe.out /\ probe.out["approved"] = "False"
        ELSE "approved" \notin DOMAIN probe.out

\* the shell capability, for a message that itself claims approval
C4_Witness ==
    /\ probe.op = "build_tool_arguments" /\ probe.done
    /\ probe.tool_name = "system_command"
    /\ probe.message = "open a shell approved: True"
    /\ probe.out["approved"] = "False"

----------------------------------------------------------------------------
(* Claims about SafeCommandRunner.                                         *)

\* the allowlist, as the specification words it
Allowlisted(vector) ==
    /\ vector # <<>>
    /\ vector[1] \in {"date", "whoami", "uptime", "pwd", "ls"}
    /\ \A i \in 2..Len(vector) :
          vector[1] = "ls" /\ vector[i] \in {"-a", "-l", "-la", "-al"}

StatusOf(result) == IF "status" \in DOMAIN result THEN result["status"] ELSE ""

\* C5: run spawns a process only for an allowlisted token vector (base command
\* a key of the allowlist, every other token a permitted flag of that key), and
\* the vector executed and reported is exactly the validated one; "ls -la" is
\* accepted (status ok once the child has exited), "rm -rf /" and "ls --bogus"
\* are denied with no process spawned.
C5_AllowlistOnly ==
    /\ \A i \in DOMAIN spawned : Allowlisted(spawned[i])
    /\ runnerOut.called =>
        /\ Len(runnerOut.spawn) <= 1
        /\ runnerOut.spawn # <<>> =>
              /\ Allowlisted(runnerOut.spawn[1])
              /\ runnerOut.payload["command"].kind = "list" =>
                    runnerOut.spawn[1] = runnerOut.payload["command"].parts
        /\ StatusOf(runnerOut.result) = "ok" =>
              /\ runnerOut.spawn = <<runnerOut.result["command"]>>
              /\ runnerOut.child = "exited"
        /\ runnerOut.payload = [command |-> StrCmd("ls -la")] =>
              /\ runnerOut.spawn = << <<"ls", "-la">> >>
              /\ runnerOut.raised = "" => StatusOf(runnerOut.result) = "ok"
        /\ runnerOut.payload \in {[command |-> StrCmd("rm -rf /")],
                                  [command |-> StrCmd("ls --bogus")],
                                  [command |-> ListCmd(<<"ls", "--bogus">>)]} =>
              /\ StatusOf(runnerOut.result) = "denied"
              /\ runnerOut.spawn = <<>>

\* "ls -la" was run and its child exited
C5_Witness ==
    /\ runnerOut.called
    /\ runnerOut.payload = [command |-> StrCmd("ls -la")]
    /\ StatusOf(runnerOut.result) = "ok"
    /\ runnerOut.result["command"] = <<"ls", "-la">>
    /\ spawned # <<>>

\* C6: for every payload, a malformed or disallowed command (one for which no
\* process is spawned) makes run return {status: denied, message: <reason>}
\* without raising.
C6_MalformedIsDenied ==
    (runnerOut.called /\ runnerOut.spawn = <<>>) =>
        /\ runnerOut.raised = ""
        /\ StatusOf(runnerOut.result) = "denied"

\* C7: when the child outlives the timeout, run returns a result with status
\* error instead of raising, and the child is terminated.
C7_TimeoutIsResult ==
    (runnerOut.called /\ runnerOut.child = "killed") =>
        /\ runnerOut.raised = ""
        /\ StatusOf(runnerOut.result) = "error"

----------------------------------------------------------------------------
(* Claims about run_agent.                                                 *)

SensitiveNames == {"calendar_crud", "email_message", "smart_home_control", "system_command"}

ApprovedIsTrue(arguments) ==
    "approved" \in DOMAIN arguments /\ arguments["approved"] = "True"

DenialOf(name) ==
    [status |-> "permission_required",
     message |-> "Permission required to run " \o name \o "."]

ToolCallsOf(r) == {r.tool_calls[i] : i \in DOMAIN r.tool_calls}

\* C1: in run_agent a capability's handler is invoked only if the gate allowed
\* the synthesized arguments; when the gate denies, the recorded result is
\* {status: permission_required, message: <gate reason>} and neither the
\* handler nor an adapter is called for it.
C1_HandlerOnlyIfAllowed ==
    /\ \A i \in DOMAIN handlerCalls :
          handlerCalls[i].name \in SensitiveNames =>
              ApprovedIsTrue(handlerCalls[i].arguments)
    /\ \A c \in ToolCallsOf(response) :
          (c.name \in SensitiveNames /\ ~ApprovedIsTrue(c.arguments)) =>
              /\ c.result = DenialOf(c.name)
              /\ \A i \in DOMAIN handlerCalls : handlerCalls[i].name # c.name
    /\ Len(handlerCalls) =
          Cardinality({i \in DOMAIN response.tool_calls :
                          response.tool_calls[i].name \in SensitiveNames =>
                              ApprovedIsTrue(response.tool_calls[i].arguments)})

\* a denied calendar request after a remember request whose handler ran
C1_Witness ==
    /\ response.message = "schedule a meeting tomorrow"
    /\ response.tool_calls # <<>>
    /\ response.tool_calls[1].name = "calendar_crud"
    /\ response.tool_calls[1].result = DenialOf("calendar_crud")
    /\ handlerCalls = <<>>
    /\ memories # <<>>

\* C2: after any sequence of handled messages no sensitive adapter has run: the
\* calendar and email stores are unchanged, no Home Assistant call was queued,
\* no process was spawned, and every tool call for a sensitive capability
\* carries approved = False and the result {status: permission_required,
\* message: "Permission required to run <capability>."}.
C2_NoSensitiveExecution ==
    /\ adapterCalls = <<>>
    /\ events = EmptyDict /\ drafts = EmptyDict /\ emails = EmptyDict
    /\ haQueued = 0
    /\ spawned = <<>>
    /\ \A c \in ToolCallsOf(response) :
          c.name \in SensitiveNames =>
              /\ "approved" \in DOMAIN c.arguments
              /\ c.arguments["approved"] = "False"
              /\ c.result = DenialOf(c.name)

\* two messages were handled, the second one asking for a shell command
C2_Witness ==
    /\ calls = 2
    /\ tasks.items # <<>>
    /\ response.message = "execute rm -rf /"
    /\ response.tool_calls # <<>>
    /\ response.tool_calls[1].name = "system_command"
    /\ response.tool_calls[1].result = DenialOf("system_command")

\* C10: whenever the gate denies a sensitive invocation while a message is
\* handled, a pending ConsentRequest with that capability name and the denied
\* arguments as payload is in the ledger when handling ends.
C10_DenialFilesConsent ==
    \A c \in ToolCallsOf(response) :
        StatusOf(c.result) = "permission_required" =>
            \E k \in DOMAIN ledger :
                /\ ledger[k].status = "pending"
                /\ ledger[k].tool_name = c.name
                /\ ledger[k].payload = c.arguments

----------------------------------------------------------------------------
(* Claims about the consent ledger.                                        *)

\* C8: a request moves only from pending to approved or denied, and once it is
\* approved or denied no later resolve changes its status, resolved_at or
\* resolution.
C8_ResolveOnce ==
    [][\A i \in DOMAIN ledger :
          /\ i \in DOMAIN ledger'
          /\ ledger[i].status # "pending" =>
                /\ ledger'[i].status = ledger[i].status
                /\ ledger'[i].resolved_at = ledger[i].resolved_at
                /\ ledger'[i].resolution = ledger[i].resolution]_vars

\* C9: for every ConsentRequest in the ledger, status is pending, approved or
\* denied; resolved_at and resolution are both set iff status is not pending;
\* and resolution, when set, equals status.
C9_ResolutionIffResolved ==
    \A i \in DOMAIN ledger :
        LET r == ledger[i] IN
        /\ r.status \in {"pending", "approved", "denied"}
        /\ (r.resolved_at # "None" /\ r.resolution # "None") <=> (r.status # "pending")
        /\ r.resolution # "None" => r.resolution = r.status

\* a ledger with a denied and a pending request
C9_Witness ==
    /\ Len(ledger) = 2
    /\ ledger[1].status = "denied" /\ ledger[1].resolution = "denied"
    /\ ledger[1].resolved_at # "None"
    /\ ledger[2].status = "pending"

\* C11: resolve with an id that is not in the ledger returns None, which
\* resolve_consent answers with HTTP 404; no record of the ledger changes and
\* no audit entry is appended.
C11_UnknownIdIsNotFound ==
    [][(/\ calls' # calls
        /\ ledgerOut'.op = "resolve"
        /\ \A i \in DOMAIN ledger : ledger[i].id # ledgerOut'.request_id)
       => /\ ~ledgerOut'.found
          /\ ledgerOut'.returned = EmptyDict
          /\ ledgerOut'.http = 404
          /\ ledger' = ledger
          /\ auditLog' = auditLog]_vars

\* an unknown id was resolved while the ledger held a pending request
C11_Witness ==
    /\ ledgerOut.op = "resolve"
    /\ ledgerOut.request_id = "unknown"
    /\ ~ledgerOut.found
    /\ ledgerOut.http = 404
    /\ Len(ledger) = 1 /\ ledger[1].status = "pending"
    /\ auditLog = <<>>

\* C12: a resolve changes only status, resolved_at and resolution of the record
\* with the given id: the ledger keeps its length, every record keeps its id,
\* tool_name, payload and created_at, every other record is unchanged, and no
\* handler, store, adapter or process is touched.
C12_ResolveFrame ==
    [][(calls' # calls /\ ledgerOut'.op = "resolve")
       => /\ Len(ledger') = Len(ledger)
          /\ \A i \in DOMAIN ledger :
                /\ ledger'[i].id = ledger[i].id
                /\ ledger'[i].tool_name = ledger[i].tool_name
                /\ ledger'[i].payload = ledger[i].payload
                /\ ledger'[i].created_at = ledger[i].created_at
                /\ ledger[i].id # ledgerOut'.request_id => ledger'[i] = ledger[i]
          /\ UNCHANGED <<agentVars, stateVars, adapterVars, runnerVars>>]_vars

\* the second of two requests was approved and the first is still pending
C12_Witness ==
    /\ ledgerOut.op = "resolve" /\ ledgerOut.found
    /\ Len(ledger) = 2
    /\ ledger[1].status = "pending" /\ ledger[1].resolved_at = "None"
    /\ ledger[2].status = "approved"
    /\ ledgerOut.request_id = ledger[2].id
    /\ handlerCalls = <<>> /\ adapterCalls = <<>>

\* the records with a given status, in ledger order
WithStatus(items, s) == SelectSeq(items, LAMBDA r : r.status = s)

\* every call but create keeps the records' number and order; create appends
\* the record it returns, pending and with an id no record had
CreateAppendsOnly ==
    calls' # calls =>
        IF ledgerOut'.op = "create"
        THEN /\ ledger' = Append(ledger, ledgerOut'.returned)
             /\ ledgerOut'.returned.status = "pending"
             /\ \A i \in DOMAIN ledger : ledger[i].id # ledgerOut'.returned.id
        ELSE /\ Len(ledger') = Len(ledger)
             /\ \A i \in DOMAIN ledger : ledger'[i].id = ledger[i].id

----------------------------------------------------------------------------
(* Claims about concurrent callers.                                        *)

AllDone == workers # <<>> /\ \A w \in DOMAIN workers : workers[w].pc = "done"

\* C14: concurrent mutating calls on the ledger (create with create, create
\* with resolve, resolve with resolve on different ids) never lose each
\* other's effect: when all have returned, the ledger holds every record a
\* create returned and shows every resolution that was reported as successful.
C14_NoLostUpdate ==
    AllDone =>
        \A w \in DOMAIN workers :
            /\ workers[w].op = "create" =>
                  \E k \in DOMAIN ledger : ledger[k].id = workers[w].returned.id
            /\ (/\ workers[w].op = "resolve" /\ workers[w].found
                /\ \A v \in DOMAIN workers \ {w} :
                      workers[v].op = "resolve" =>
                          workers[v].request_id # workers[w].request_id)
               => \E k \in DOMAIN ledger :
                     /\ ledger[k].id = workers[w].request_id
                     /\ ledger[k].status = workers[w].returned.status

\* where in the audit log an entry stands
PlacesOf(entry) == {i \in DOMAIN auditLog : auditLog[i] = entry}

\* C15: under every interleaving of concurrent append calls, each appended
\* entry is in the log exactly once and intact (every line of the log is an
\* entry some caller appended), and the entries of one caller stand in the
\* order in which that caller appended them.
C15_AppendsIntact ==
    /\ \A w \in DOMAIN workers :
          \A k \in DOMAIN workers[w].appended :
              /\ Cardinality(PlacesOf(workers[w].appended[k])) = 1
              /\ \A j \in 1..(k - 1) :
                    \A a \in PlacesOf(workers[w].appended[j]),
                       b \in PlacesOf(workers[w].appended[k]) : a < b
    /\ \A i \in DOMAIN auditLog :
          \E w \in DOMAIN workers :
              \E k \in DOMAIN workers[w].appended : auditLog[i] = workers[w].appended[k]

\* two callers appended two entries each, and their entries alternate in the log
C15_Witness ==
    /\ AllDone
    /\ Len(workers) >= 2
    /\ Len(workers[1].appended) = 2 /\ Len(workers[2].appended) = 2
    /\ Len(auditLog) >= 4
    /\ auditLog[1] = workers[1].appended[1]
    /\ auditLog[2] = workers[2].appended[1]
    /\ auditLog[3] = workers[1].appended[2]
    /\ auditLog[4] = workers[2].appended[2]

----------------------------------------------------------------------------
(* Claims about the audit log.                                             *)

\* C16: an append adds one entry with the event, actor and details it was
\* given; after N appends on an empty log, list(limit=N) returns those N
\* entries in append order, and list(limit=k) with 1 <= k < N returns the k
\* most recently appended entries, the oldest of them first.
C16_ListReturnsMostRecent ==
    [][/\ (auditOut'.op = "append" /\ auditLog' # auditLog) =>
             /\ Len(auditLog') = Len(auditLog) + 1
             /\ SubSeq(auditLog', 1, Len(auditLog)) = auditLog
             /\ auditLog'[Len(auditLog')].event = auditOut'.event
             /\ auditLog'[Len(auditLog')].actor = auditOut'.actor
             /\ auditLog'[Len(auditLog')].details = auditOut'.details
       /\ (auditOut'.op = "list" /\ auditLog' = auditLog
           /\ auditOut'.limit >= 1 /\ auditOut'.limit <= Len(auditLog)) =>
             LET n == Len(auditLog)
                 k == auditOut'.limit
             IN  /\ Len(auditOut'.returned) = k
                 /\ \A i \in 1..k : auditOut'.returned[i] = auditLog[n - k + i]]_vars

\* the two most recent of four entries were listed
C16_Witness ==
    /\ auditOut.op = "list" /\ auditOut.limit = 2
    /\ Len(auditLog) = 4
    /\ auditLog[3].event = "chat_received" /\ auditLog[4].event = "consent_resolved"
    /\ auditOut.returned = <<auditLog[3], auditLog[4]>>

\* C17: the audit log is append-only: every step of every endpoint leaves
\* the entries already in the log where they were, with their id, event,
\* actor, details and created_at, so the log of a state extends the log of
\* every earlier state.
C17_AppendOnly ==
    [][/\ Len(auditLog') >= Len(auditLog)
       /\ SubSeq(auditLog', 1, Len(auditLog)) = auditLog]_vars

\* three endpoints appended in turn and a listing followed
C17_Witness ==
    /\ Len(auditLog) = 3
    /\ auditLog[1].event = "chat_received"
    /\ auditLog[2].event = "oauth_started"
    /\ auditLog[3].event = "oauth_completed"
    /\ auditOut.op = "list"

----------------------------------------------------------------------------
(* Claims about the audit entry of a chat message.                         *)

\* the last line of the log
LastEntry(log) == log[Len(log)]

\* C18: every chat message appends exactly one audit entry, with event
\* chat_received and actor user, whose details hold the intent the
\* classifier returns for the message and the names of the capabilities
\* attempted for it.
C18_OneEntryPerMessage ==
    [][calls' = calls + 1 =>
          /\ Len(auditLog') = Len(auditLog) + 1
          /\ SubSeq(auditLog', 1, Len(auditLog)) = auditLog
          /\ LastEntry(auditLog').event = "chat_received"
          /\ LastEntry(auditLog').actor = "user"
          /\ LastEntry(auditLog').details.intent = IntentOf[response'.message]
          /\ LastEntry(auditLog').details.tool_calls = select_tools(IntentOf[response'.message])]_vars

\* a message denied by the gate and a message without a capability were each
\* logged once
C18_Witness ==
    /\ calls = 2 /\ Len(auditLog) = 2
    /\ auditLog[1].details.intent = "calendar"
    /\ auditLog[1].details.tool_calls = <<"calendar_crud">>
    /\ auditLog[2].details.intent = "general"
    /\ auditLog[2].details.tool_calls = <<>>
    /\ response.message = "hello there"

\* C19: the audit entry of a chat message records the outcome of each
\* capability attempted for it: one of its list-valued details gives, for
\* every tool call of the response, the status of that call's result
\* (permission_required when the gate denied it).
C19_EntryRecordsOutcome ==
    (response.message # "" /\ response.tool_calls # <<>>) =>
        \E k \in DOMAIN LastEntry(auditLog).details \ {"intent", "provider"} :
            /\ Len(LastEntry(auditLog).details[k]) = Len(response.tool_calls)
            /\ \A i \in DOMAIN response.tool_calls :
                  LastEntry(auditLog).details[k][i] = response.tool_calls[i].result.status

----------------------------------------------------------------------------
(* Claims about the classifier.                                            *)

\* the keyword groups in their priority order
KeywordGroups ==
    <<[tag |-> "remember", words |-> {"remember", "save", "note"}],
      [tag |-> "store_summary", words |-> {"summary", "summarize"}],
      [tag |-> "create_task", words |-> {"task", "todo", "remind"}],
      [tag |-> "recall", words |-> {"recall", "search", "lookup", "find memory"}],
      [tag |-> "calendar", words |-> {"calendar", "schedule", "meeting", "appointment"}],
      [tag |-> "email", words |-> {"email", "mail", "inbox", "message"}],
      [tag |-> "smart_home",
       words |-> {"home assistant", "smart home", "lights", "thermostat"}],
      [tag |-> "system_command", words |-> {"run command", "execute", "terminal", "shell"}]>>

\* the groups one of whose words occurs in the message, letter case aside
MatchingGroups(message) ==
    {g \in DOMAIN KeywordGroups :
        \E w \in KeywordGroups[g].words :
           \E i \in 1..(Len(message) - Len(w) + 1) :
              Lower(SubSeq(message, i, i + Len(w) - 1)) = w}

IntentTags == {KeywordGroups[g].tag : g \in DOMAIN KeywordGroups} \cup {"general"}

\* C20: detect_intent returns one tag for every string, the empty string
\* included: the tag of the first keyword group, in the order remember,
\* store_summary, create_task, recall, calendar, email, smart_home,
\* system_command, one of whose words occurs in the message whatever the
\* letter case, and general when no group matches.
C20_FirstMatchingGroup ==
    (probe.op = "detect_intent" /\ probe.done) =>
        /\ probe.out.intent \in IntentTags
        /\ IF MatchingGroups(probe.message) = {}
           THEN probe.out.intent = "general"
           ELSE \E g \in MatchingGroups(probe.message) :
                   /\ \A h \in MatchingGroups(probe.message) : g <= h
                   /\ probe.out.intent = KeywordGroups[g].tag

\* a message with words of three groups was classified by the first of them
C20_Witness ==
    /\ probe.op = "detect_intent" /\ probe.done
    /\ probe.message = "todo: email the schedule"
    /\ MatchingGroups(probe.message) = {3, 5, 6}
    /\ probe.out.intent = "create_task"

\* the message holds a word of one of the groups, letter case aside
HasWordOf(message, groups) == MatchingGroups(message) \cap groups # {}

\* the message holds the word, letter case aside
HasWord(message, word) == Contains(Lower(message), word)

\* C21: a message that contains "remind" and no word of the remember or
\* store_summary groups is classified create_task, whatever calendar or email
\* words it holds; a message that contains "lights" and no word of the
\* remember, store_summary, create_task, recall, calendar or email groups is
\* classified smart_home.
C21_RemindAndLights ==
    (probe.op = "detect_intent" /\ probe.done) =>
        /\ (HasWord(probe.message, "remind") /\ ~HasWordOf(probe.message, {1, 2}))
              => probe.out.intent = "create_task"
        /\ (HasWord(probe.message, "lights") /\ ~HasWordOf(probe.message, 1..6))
              => probe.out.intent = "smart_home"

\* a message with "remind" in mixed case was classified create_task
C21_Witness ==
    /\ probe.op = "detect_intent" /\ probe.done
    /\ probe.message = "Remind me to call mom"
    /\ HasWord(probe.message, "remind") /\ ~HasWordOf(probe.message, {1, 2})
    /\ probe.out.intent = "create_task"

\* C21 as the specification words it: "remind" without a calendar or email
\* word gives create_task, and "lights" gives smart_home.
C21_AsStated ==
    (probe.op = "detect_intent" /\ probe.done) =>
        /\ (HasWord(probe.message, "remind") /\ ~HasWordOf(probe.message, {5, 6}))
              => probe.out.intent = "create_task"
        /\ HasWord(probe.message, "lights") => probe.out.intent = "smart_home"

----------------------------------------------------------------------------
(* Claims about run_agent and the capabilities it attempts.                *)

\* the capability each intent other than general stands for
CapabilityOf ==
    [remember |-> "remember", store_summary |-> "store_summary",
     create_task |-> "create_task", recall |-> "recall", calendar |-> "calendar_crud",
     email |-> "email_message", smart_home |-> "smart_home_control",
     system_command |-> "system_command"]

\* C22: run_agent attempts at most one capability for a message: no tool
\* call exactly when the intent is general, otherwise one tool call, for the
\* capability the intent maps to; every name select_tools can return is in
\* the registry, and the lookup of run_agent never ends in KeyError.
C22_AtMostOneCapability ==
    /\ \A intent \in IntentTags :
          \A i \in DOMAIN select_tools(intent) : Registered(select_tools(intent)[i])
    /\ response.message # "" =>
          /\ response.raised = ""
          /\ Len(response.tool_calls) <= 1
          /\ (response.tool_calls = <<>>) <=> (response.intent = "general")
          /\ response.tool_calls # <<>> =>
                response.tool_calls[1].name = CapabilityOf[response.intent]

\* a message of the email intent got one tool call, a general one none before it
C22_Witness ==
    /\ response.message = "send the email now"
    /\ response.intent = "email"
    /\ Len(response.tool_calls) = 1
    /\ response.tool_calls[1].name = "email_message"
    /\ Len(auditLog) = 2
    /\ auditLog[1].details.intent = "general"
    /\ auditLog[1].details.tool_calls = <<>>

NonSensitiveIntents == {"remember", "store_summary", "create_task", "recall"}

----------------------------------------------------------------------------
(* Claims about the gate and the consent ledger together.                  *)

\* the step is a chat message being handled
ChatStep ==
    /\ Len(auditLog') = Len(auditLog) + 1
    /\ LastEntry(auditLog').event = "chat_received"

\* C24: the gate looks at the capability name and the approved argument
\* only: a tool call for a sensitive capability whose arguments do not carry
\* approved = True is denied whatever the consent ledger holds, also after a
\* request for that capability was resolved as approved; and handling such a
\* message changes neither the ledger, nor the registry, nor an adapter's store.
C24_GateIgnoresLedger ==
    /\ [](\A i \in DOMAIN response.tool_calls :
            (response.tool_calls[i].name \in SensitiveNames
             /\ ~ApprovedIsTrue(response.tool_calls[i].arguments))
               => response.tool_calls[i].result = DenialOf(response.tool_calls[i].name))
    /\ [][ChatStep =>
             /\ ledger' = ledger /\ ledgerOut' = ledgerOut /\ tools' = tools
             /\ response'.intent \in {"calendar", "email", "smart_home", "system_command"} =>
                   UNCHANGED <<stateVars, adapterVars, spawned>>]_vars

\* an approved calendar request is in the ledger, its approval was audited,
\* and the calendar message that followed was denied
C24_Witness ==
    /\ \E i \in DOMAIN ledger :
          ledger[i].tool_name = "calendar_crud" /\ ledger[i].status = "approved"
    /\ Len(auditLog) = 2
    /\ auditLog[1].event = "consent_resolved" /\ auditLog[1].details.approved = TRUE
    /\ auditLog[2].event = "chat_received"
    /\ response.message = "schedule a meeting tomorrow"
    /\ response.tool_calls[1].result = DenialOf("calendar_crud")
    /\ events = EmptyDict

----------------------------------------------------------------------------
(* Claims about the capability registry.                                   *)

\* names no register_tool call is ever made with
NeverRegistered == {"unknown_tool"}

SameCapability(a, b) ==
    a.name = b.name /\ a.description = b.description /\ a.input_schema = b.input_schema

\* C25: get_tool of the name just registered returns a capability with the
\* name, description and input schema that were registered, also when the
\* name was registered before (the latest registration wins); get_tool of a
\* name that was never registered ends in KeyError and returns nothing.
C25_RegistryRoundTrip ==
    [][(registryOut'.op = "get" /\ tools' = tools) =>
          /\ (registryOut.op = "register" /\ registryOut.tool.name = registryOut'.name) =>
                /\ registryOut'.raised = ""
                /\ SameCapability(registryOut'.returned, registryOut.tool)
          /\ registryOut'.name \in NeverRegistered =>
                /\ registryOut'.raised = "KeyError"
                /\ "returned" \notin DOMAIN registryOut'
          /\ registryOut'.raised = "" => registryOut'.returned.name = registryOut'.name]_vars

\* echo was registered twice and looked up: the second registration came back
C25_Witness ==
    /\ calls = 2
    /\ registryOut.op = "get" /\ registryOut.name = "echo"
    /\ registryOut.raised = ""
    /\ registryOut.returned.description = "Echo the input twice."
    /\ Len(tools.keys) = 12

\* C26: the table keeps the capabilities in the order their names were first
\* registered, those of start-up first; list_tools returns each capability
\* of the table once, in that order, and available_tools_payload returns one
\* {name, description, input_schema} record per capability in the same order.
C26_ListInRegistrationOrder ==
    /\ [](/\ Len(tools.keys) >= Len(TOOLS)
          /\ \A i \in DOMAIN TOOLS : tools.keys[i] = TOOLS[i].name
          /\ \A i, j \in DOMAIN tools.keys : tools.keys[i] = tools.keys[j] => i = j)
    /\ [][/\ (registryOut'.op = "register" /\ calls' = calls + 1) =>
                tools'.keys = IF \E i \in DOMAIN tools.keys :
                                    tools.keys[i] = registryOut'.tool.name
                              THEN tools.keys
                              ELSE Append(tools.keys, registryOut'.tool.name)
          /\ (registryOut'.op = "list" /\ tools' = tools) =>
                /\ Len(registryOut'.returned) = Len(tools.keys)
                /\ \A i \in DOMAIN tools.keys :
                      registryOut'.returned[i] = tools.values[tools.keys[i]]
          /\ (registryOut'.op = "payload" /\ tools' = tools) =>
                /\ Len(registryOut'.returned) = Len(tools.keys)
                /\ \A i \in DOMAIN tools.keys :
                      /\ DOMAIN registryOut'.returned[i]
                            = {"name", "description", "input_schema"}
                      /\ SameCapability(registryOut'.returned[i],
                                        tools.values[tools.keys[i]])]_vars

\* ping and then echo were registered and the table was listed
C26_Witness ==
    /\ calls = 2
    /\ registryOut.op = "list"
    /\ Len(registryOut.returned) = 13
    /\ registryOut.returned[1].name = "remember"
    /\ registryOut.returned[11].name = "system_command"
    /\ registryOut.returned[12].name = "ping"
    /\ registryOut.returned[13].name = "echo"

\* C27: the capability table is immutable after start-up: it holds the
\* capabilities registered at import time, and no step of an endpoint (chat,
\* capability discovery, consent listing and resolution, audit query, OAuth
\* and privacy endpoints) adds, removes or replaces an entry.
C27_RegistryImmutable ==
    /\ [](tools = RegisterAll(EmptyRegistry, TOOLS))
    /\ [][tools'.keys = tools.keys /\ tools'.values = tools.values]_vars

\* a chat message, a consent resolution, an audit query and a discovery call
\* were served, and the table has its eleven capabilities
C27_Witness ==
    /\ response.message = "schedule a meeting tomorrow"
    /\ ledgerOut.op = "resolve"
    /\ auditOut.op = "list"
    /\ registryOut.op = "payload"
    /\ Len(registryOut.returned) = 11
    /\ Len(tools.keys) = 11
----------------------------------------------------------------------------
\* C28: when the credentials of the requested provider are absent,
\* CalendarAdapter.handle, EmailAdapter.handle and HomeAssistantAdapter.handle
\* return status not_configured for every action and payload, and the stored
\* events, drafts and messages stay as they were.
CredentialsAbsent(call) ==
    \/ /\ call.adapter = "calendar"
       /\ \/ call.provider = "google" /\ "GOOGLE_CALENDAR_TOKEN" \notin configured
          \/ call.provider = "outlook" /\ "OUTLOOK_CALENDAR_TOKEN" \notin configured
    \/ /\ call.adapter = "email"
       /\ \/ call.provider = "google" /\ "GOOGLE_EMAIL_TOKEN" \notin configured
          \/ call.provider = "outlook" /\ "OUTLOOK_EMAIL_TOKEN" \notin configured
    \/ /\ call.adapter = "home_assistant"
       /\ ~ ({"HOME_ASSISTANT_URL", "HOME_ASSISTANT_TOKEN"} \subseteq configured)

C28_NotConfigured ==
    /\ [](CredentialsAbsent(adapterOut)
            => /\ adapterOut.raised = ""
               /\ adapterOut.result.status = "not_configured")
    /\ [][CredentialsAbsent(adapterOut') /\ calls' = calls + 1
            => UNCHANGED <<events, drafts, emails, haQueued>>]_vars

\* C28 witness: with only Google's credentials set and a Google event stored,
\* an Outlook calendar call has come back.
C28_Witness ==
    /\ events # EmptyDict
    /\ adapterOut.adapter = "calendar"
    /\ adapterOut.provider = "outlook"
    /\ adapterOut.action = "create"
    /\ CredentialsAbsent(adapterOut)
----------------------------------------------------------------------------
\* C29: CalendarAdapter.handle and EmailAdapter.handle never raise: for every
\* provider, action and payload, absent or null fields included, the call
\* returns a mapping with a status field; an unsupported provider, an unknown
\* action, an update or delete of an event id that is not stored and a send of
\* a draft id that is not stored return status error and leave the stored
\* events, drafts and messages as they were.
DomainError(call, storedEvents, storedDrafts) ==
    \/ call.provider \notin {"google", "outlook"}
    \/ /\ ~CredentialsAbsent(call)
       /\ \/ call.adapter = "calendar"
             /\ call.action \notin {"create", "update", "delete", "list", "read"}
          \/ call.adapter = "email"
             /\ call.action \notin {"search", "compose", "send"}
          \/ /\ call.adapter = "calendar"
             /\ call.action \in {"update", "delete"}
             /\ Get(call.payload, "event_id", PyNone) \notin DOMAIN storedEvents
          \/ /\ call.adapter = "email"
             /\ call.action = "send"
             /\ Get(call.payload, "draft_id", PyNone) # PyNone
             /\ Get(call.payload, "draft_id", PyNone) \notin DOMAIN storedDrafts

C29_NeverRaises ==
    /\ [](adapterOut.adapter \in {"calendar", "email"}
            => /\ adapterOut.raised = ""
               /\ "status" \in DOMAIN adapterOut.result)
    /\ [][/\ calls' = calls + 1
          /\ adapterOut'.adapter \in {"calendar", "email"}
          /\ DomainError(adapterOut', events, drafts)
          => /\ adapterOut'.raised = ""
             /\ adapterOut'.result.status = "error"
             /\ UNCHANGED <<events, drafts, emails>>]_vars
----------------------------------------------------------------------------
\* C30: no audit entry contains a credential value: whatever operation
\* appended it (chat, OAuth start, callback, disconnect, consent resolution,
\* privacy update), no string of its details contains an OAuth authorization
\* code or a stored secret value, so the entries' event, actor and details do
\* not depend on the credential values.
NonStringFields ==
    {"tool_calls", "approved", "retention_days", "data_export_enabled", "delete_on_request"}

\* the strings of an entry's details
DetailStrings(details) ==
    {details[k] : k \in DOMAIN details \ NonStringFields}
        \cup (IF "tool_calls" \in DOMAIN details
              THEN {details.tool_calls[i] : i \in DOMAIN details.tool_calls} ELSE {})

CredentialValues == OAuthCodes \cup {secrets[k].value : k \in DOMAIN secrets}

C30_NoCredentialInAudit ==
    \A i \in DOMAIN auditLog :
       /\ auditLog[i].actor \notin CredentialValues
       /\ auditLog[i].event \notin CredentialValues
       /\ \A text \in DetailStrings(auditLog[i].details) :
             \A credential \in CredentialValues : ~Contains(text, credential)

\* C30 witness: a callback has stored a secret that holds the authorization
\* code, and the entry it wrote is the last one of the log.
C30_Witness ==
    /\ integrationOut.op = "callback"
    /\ integrationOut.http = 200
    /\ \E k \in DOMAIN secrets : Contains(secrets[k].value, "zQ9-b")
    /\ Len(auditLog) >= 2
    /\ auditLog[Len(auditLog)].event = "oauth_completed"
----------------------------------------------------------------------------
\* C31: each registered handler of a sensitive capability asks the gate
\* itself: called directly with a payload whose approved is not the boolean
\* True it returns {status: permission_required, message: ...} as a value and
\* does not reach its adapter, so an adapter is entered only by a call whose
\* payload has approved = True.
ApprovedTrue(payload) == Get(payload, "approved", PyNone) = PyTrue

C31_HandlersRecheckGate ==
    /\ []((probe.op = "handler" /\ ~ApprovedTrue(probe.payload))
            => /\ probe.raised = ""
               /\ probe.result = [status |-> "permission_required",
                                  message |-> "Permission required to run "
                                                 \o probe.name \o "."])
    /\ [][(calls' = calls + 1 /\ probe'.op = "handler" /\ ~ApprovedTrue(probe'.payload))
            => UNCHANGED <<adapterCalls, events, drafts, emails, haQueued, spawned>>]_vars
    /\ [][adapterCalls' # adapterCalls
            => probe'.op = "handler" /\ ApprovedTrue(probe'.payload)]_vars

\* C31 witness: an approved call has entered the Home Assistant adapter and a
\* later call of the same handler with approved "1" came back.
C31_Witness ==
    /\ adapterCalls = <<"home_assistant">>
    /\ probe.op = "handler"
    /\ probe.name = "smart_home_control"
    /\ probe.payload.approved = "1"
----------------------------------------------------------------------------
\* C32: for every limit k >= 0 and every log of N entries, list(limit=k)
\* returns exactly min(k, N) entries, the min(k, N) most recent ones in
\* chronological order; list(limit=0) returns no entry.
C32_ListReturnsMinKN ==
    [][(auditOut'.op = "list" /\ auditLog' = auditLog /\ auditOut'.limit >= 0) =>
          LET n == Len(auditLog)
              k == IF auditOut'.limit < n THEN auditOut'.limit ELSE n
          IN  /\ Len(auditOut'.returned) = k
              /\ \A i \in 1..k : auditOut'.returned[i] = auditLog[n - k + i]]_vars
----------------------------------------------------------------------------
\* C33: through resolve_consent every successful resolution appends exactly
\* one audit entry, with event consent_resolved, the request id and the
\* approved flag, and the ledger record is already updated when the entry is
\* there; a resolution that ends in 404 appends none.
ResolveStep == ledgerOut'.op = "resolve" /\ calls' = calls + 1

C33_ResolutionAudited ==
    /\ [][ResolveStep =>
            IF ledgerOut'.found
            THEN /\ Len(auditLog') = Len(auditLog) + 1
                 /\ SubSeq(auditLog', 1, Len(auditLog)) = auditLog
                 /\ auditLog'[Len(auditLog')].event = "consent_resolved"
                 /\ auditLog'[Len(auditLog')].details =
                       [request_id |-> ledgerOut'.request_id,
                        approved |-> ledgerOut'.approved]
                 /\ \E i \in DOMAIN ledger' :
                       /\ ledger'[i].id = ledgerOut'.request_id
                       /\ ledger'[i].status =
                             (IF ledgerOut'.approved THEN "approved" ELSE "denied")
            ELSE auditLog' = auditLog /\ ledger' = ledger]_vars
    /\ [](\A e \in DOMAIN auditLog :
             auditLog[e].event = "consent_resolved" =>
                \E i \in DOMAIN ledger :
                   /\ ledger[i].id = auditLog[e].details.request_id
                   /\ ledger[i].status # "pending")

\* C33 witness: one request was approved and an unknown id was refused after
\* it; the log holds the one entry of the approval.
C33_Witness ==
    /\ ledgerOut.op = "resolve"
    /\ ~ledgerOut.found
    /\ Len(auditLog) = 1
    /\ auditLog[1].event = "consent_resolved"
    /\ auditLog[1].details.approved = TRUE
    /\ \E i \in DOMAIN ledger : ledger[i].status = "approved"
----------------------------------------------------------------------------
\* C34: every successful CalendarAdapter create adds a new event: the number
\* of stored events grows by one and no stored event is replaced, also when
\* two creates fall in the same clock millisecond; the same for email compose
\* and the drafts.
AddsOne(before, after) ==
    /\ Cardinality(DOMAIN after) = Cardinality(DOMAIN before) + 1
    /\ \A k \in DOMAIN before : k \in DOMAIN after /\ after[k] = before[k]

C34_CreateAddsOne ==
    [][(calls' = calls + 1 /\ adapterOut'.adapter \in {"calendar", "email"}
        /\ adapterOut'.raised = "") =>
          /\ (adapterOut'.adapter = "calendar" /\ adapterOut'.result.status = "created")
                => AddsOne(events, events')
          /\ (adapterOut'.adapter = "email" /\ adapterOut'.result.status = "drafted")
                => AddsOne(drafts, drafts')]_vars

----------------------------------------------------------------------------
\* C35: after any sequence of create, update, delete and list calls on
\* CalendarAdapter every stored event's id is the key it is stored under; a
\* deleted event is absent from later list results, and a later update or
\* delete of its id returns status error.
C35_EventIdIsKey ==
    /\ [](\A k \in DOMAIN events : events[k].id = k)
    /\ []((adapterOut.adapter = "calendar" /\ adapterOut.raised = ""
           /\ adapterOut.result.status = "ok")
             => adapterOut.result.events = {events[k] : k \in DOMAIN events})
    /\ [][(calls' = calls + 1 /\ adapterOut'.adapter = "calendar"
           /\ adapterOut'.action \in {"update", "delete"}
           /\ ~CredentialsAbsent(adapterOut')
           /\ adapterOut'.provider \in {"google", "outlook"}
           /\ Get(adapterOut'.payload, "event_id", PyNone) \notin DOMAIN events)
             => adapterOut'.result.status = "error"]_vars

----------------------------------------------------------------------------
\* C36: after any sequence of compose, send and search calls on EmailAdapter
\* every stored draft's id is its key in the draft store and every stored
\* message's id is its key in the message store, also after a draft was sent
\* by draft_id and after the same draft was sent twice.
C36_MailIdIsKey ==
    /\ \A k \in DOMAIN drafts : drafts[k].id = k
    /\ \A k \in DOMAIN emails : emails[k].id = k
----------------------------------------------------------------------------
\* C37: the OAuth callback stores the secret oauth:<provider> and appends an
\* oauth_completed entry only when the presented state is stored, that is
\* issued by a start call and not consumed, and was issued for that same
\* provider; a callback with an unknown provider, an unknown or consumed
\* state, or a state of another provider stores no secret and appends no
\* entry.  The state store holds exactly what start issued and no callback
\* has taken.
StateIssuedFor(state, provider) ==
    /\ provider \in DOMAIN PROVIDERS
    /\ state \in DOMAIN oauthStates
    /\ oauthStates[state].provider = provider

C37_CallbackNeedsIssuedState ==
    /\ [][\A provider \in ProviderInputs, state \in DOMAIN oauthStates \cup PresentedStates :
            (/\ integrationOut'.op = "callback"
             /\ \E code \in OAuthCodes : oauth_callback(provider, code, state, clock + 1))
            => IF StateIssuedFor(state, provider)
               THEN /\ integrationOut'.http = 200
                    /\ oauthStates' = Without(oauthStates, state)
                    /\ ("oauth:" \o provider) \in DOMAIN secrets'
                    /\ Len(auditLog') = Len(auditLog) + 1
                    /\ auditLog'[Len(auditLog')].event = "oauth_completed"
                    /\ auditLog'[Len(auditLog')].details.provider = provider
               ELSE /\ integrationOut'.http # 200
                    /\ secrets' = secrets
                    /\ auditLog' = auditLog]_vars
    /\ [][(secrets' # secrets /\ DOMAIN secrets \subseteq DOMAIN secrets')
            => integrationOut'.op = "callback" /\ integrationOut'.http = 200]_vars
    /\ [][\A st \in DOMAIN oauthStates' :
             IF st \in DOMAIN oauthStates THEN oauthStates'[st] = oauthStates[st]
             ELSE /\ integrationOut'.op = "start" /\ integrationOut'.http = 200
                  /\ integrationOut'.state = st
                  /\ auditLog'[Len(auditLog')].event = "oauth_started"
                  /\ auditLog'[Len(auditLog')].details.provider
                        = oauthStates'[st].provider]_vars

\* C37 witness: the state issued for Google was taken by a callback, and the
\* same state presented once more was refused: one secret, one
\* oauth_completed entry.
C37_Witness ==
    /\ integrationOut.op = "callback"
    /\ integrationOut.http = 400
    /\ DOMAIN secrets = {"oauth:google"}
    /\ oauthStates = EmptyDict
    /\ Len(auditLog) = 2
    /\ auditLog[2].event = "oauth_completed"
----------------------------------------------------------------------------
\* C38: an OAuth state is single-use: of the callbacks that present one
\* state at most one succeeds, under every interleaving of concurrent
\* callbacks and start calls; and a start call that runs alongside other
\* calls does not lose the state it issued: when all have returned, the
\* state is stored.
Succeeded(w) == workers[w].op = "callback" /\ workers[w].pc = "done" /\ workers[w].http = 200

C38_StateSingleUse ==
    /\ \A v, w \in DOMAIN workers :
          (Succeeded(v) /\ Succeeded(w) /\ workers[v].state = workers[w].state) => v = w
    /\ AllDone =>
          \A w \in DOMAIN workers :
             workers[w].op = "start" => workers[w].state \in DOMAIN oauthStates
----------------------------------------------------------------------------
\* C39: in a voice session a chunk received while text_only is true does not
\* enter the buffer; flush_audio on an empty buffer returns the empty
\* transcript and does not call the speech-to-text provider; after every
\* flush_audio the buffer is empty, so each received chunk is transcribed at
\* most once over successive end events.
BytesOf(audio) == {audio[i] : i \in DOMAIN audio}

Occurrences(audio, byte) == Cardinality({i \in DOMAIN audio : audio[i] = byte})

VoiceStep(op) == calls' = calls + 1 /\ voiceOut'.op = op

C39_ChunkTranscribedOnce ==
    /\ [][(VoiceStep("bytes") /\ Truthy(text_only)) => audio_buffer' = audio_buffer]_vars
    /\ [][(VoiceStep("bytes") /\ ~Truthy(text_only))
            => audio_buffer' = audio_buffer \o voiceOut'.chunk]_vars
    /\ [][(VoiceStep("end") /\ audio_buffer = <<>>)
            => transcribed' = transcribed /\ voiceOut'.transcript = ""]_vars
    /\ [][(VoiceStep("end") \/ (VoiceStep("closed") /\ voiceOut'.raised = "RuntimeError"))
            => /\ audio_buffer' = <<>>
               /\ audio_buffer # <<>> => transcribed' = Append(transcribed, audio_buffer)]_vars
    /\ [](\A i \in DOMAIN transcribed :
             /\ BytesOf(transcribed[i]) \cap BytesOf(audio_buffer) = {}
             /\ \A byte \in BytesOf(transcribed[i]) : Occurrences(transcribed[i], byte) = 2
             /\ \A j \in DOMAIN transcribed :
                   i # j => BytesOf(transcribed[i]) \cap BytesOf(transcribed[j]) = {})

\* C39 witness: one chunk was handed to the provider, the session is in
\* text-only mode, and the last of four messages was an end event that sent
\* the empty transcript and left the buffer empty.
C39_Witness ==
    /\ voiceOut.op = "end"
    /\ voiceOut.transcript = ""
    /\ Truthy(text_only)
    /\ Len(transcribed) = 1
    /\ audio_buffer = <<>>
    /\ calls = MaxVoiceMessages

====
